---- MODULE Spec2Model ----
(***************************************************************************)
(* A model of the baseball-scrapping repository: the table extractors of   *)
(* common_scraper.py, the CSV sink (save_to_csv), the cleaning pass of     *)
(* data_cleaner.py (clean_csv) and the scraping runs of scraper_al.py and  *)
(* scraper_minor.py with their checkpoints.                                *)
(*                                                                         *)
(* Text is a sequence of one-character strings, so that strip, replace,    *)
(* substring tests and number parsing are computed and not assumed.  A     *)
(* value of a data frame cell is a record [k, s, m, e]:                    *)
(*   k = "str"   the text s                                                *)
(*   k = "int"   the integer m                                             *)
(*   k = "float" the decimal m / 10^e (no trailing zero in the fraction)   *)
(*   k = "nan"   None / NaN                                                *)
(***************************************************************************)
EXTENDS Integers, Sequences, FiniteSets, TLC

(***************************************************************************)
(* Characters.  The mangled encodings of the one-half glyph are sequences  *)
(* of the code points below (named by code point).                         *)
(***************************************************************************)
cHalf == "U+00BD"
cACirc == "U+00C2"
cATilde == "U+00C3"
cLowQuote == "U+201A"
cFHook == "U+0192"
caCirc == "U+00E2"
cEuro == "U+20AC"
cSCaron == "U+0161"

Digits == {"0", "1", "2", "3", "4", "5", "6", "7", "8", "9"}

DigitVal(c) ==
  CASE c = "0" -> 0 [] c = "1" -> 1 [] c = "2" -> 2 [] c = "3" -> 3
    [] c = "4" -> 4 [] c = "5" -> 5 [] c = "6" -> 6 [] c = "7" -> 7
    [] c = "8" -> 8 [] c = "9" -> 9

DigitChar(d) ==
  CASE d = 0 -> "0" [] d = 1 -> "1" [] d = 2 -> "2" [] d = 3 -> "3"
    [] d = 4 -> "4" [] d = 5 -> "5" [] d = 6 -> "6" [] d = 7 -> "7"
    [] d = 8 -> "8" [] d = 9 -> "9"

Whitespace == {" "}

(***************************************************************************)
(* Python string operations.                                               *)
(***************************************************************************)
RECURSIVE LStrip(_)
LStrip(t) == IF t # <<>> /\ Head(t) \in Whitespace THEN LStrip(Tail(t)) ELSE t

RECURSIVE RStrip(_)
RStrip(t) ==
  IF t # <<>> /\ t[Len(t)] \in Whitespace
  THEN RStrip(SubSeq(t, 1, Len(t) - 1))
  ELSE t

\* str.strip()
Strip(t) == RStrip(LStrip(t))

\* str.startswith(p)
StartsWith(t, p) == Len(p) <= Len(t) /\ SubSeq(t, 1, Len(p)) = p

\* str.endswith(p)
EndsWith(t, p) == Len(p) <= Len(t) /\ SubSeq(t, Len(t) - Len(p) + 1, Len(t)) = p

\* p in t
Contains(t, p) ==
  \E i \in 1..(Len(t) - Len(p) + 1) : SubSeq(t, i, i + Len(p) - 1) = p

\* str.replace(p, r), for a non-empty p: leftmost non-overlapping occurrences
RECURSIVE Replace(_, _, _)
Replace(t, p, r) ==
  IF t = <<>> THEN <<>>
  ELSE IF StartsWith(t, p)
       THEN r \o Replace(SubSeq(t, Len(p) + 1, Len(t)), p, r)
       ELSE <<Head(t)>> \o Replace(Tail(t), p, r)

\* re.sub(p1|p2|..., r, t): at each position the first alternative of the
\* sequence alts that matches is replaced
RECURSIVE ReSubAlt(_, _, _)
ReSubAlt(t, alts, r) ==
  IF t = <<>> THEN <<>>
  ELSE LET hits == {i \in 1..Len(alts) : StartsWith(t, alts[i])}
       IN IF hits = {}
          THEN <<Head(t)>> \o ReSubAlt(Tail(t), alts, r)
          ELSE LET i == CHOOSE j \in hits : \A k \in hits : j <= k
               IN r \o ReSubAlt(SubSeq(t, Len(alts[i]) + 1, Len(t)), alts, r)

(***************************************************************************)
(* Numbers.  Python's float() and pandas' numeric parsers accept, over the *)
(* characters used here, an optional sign, digits and at most one decimal  *)
(* point with a digit on at least one side of it.                          *)
(***************************************************************************)
RECURSIVE Pow10(_)
Pow10(n) == IF n = 0 THEN 1 ELSE 10 * Pow10(n - 1)

RECURSIVE DigitsToNat(_)
DigitsToNat(t) ==
  IF t = <<>> THEN 0
  ELSE 10 * DigitsToNat(SubSeq(t, 1, Len(t) - 1)) + DigitVal(t[Len(t)])

RECURSIVE NatToDigits(_)
NatToDigits(n) ==
  IF n < 10 THEN <<DigitChar(n)>>
  ELSE NatToDigits(n \div 10) \o <<DigitChar(n % 10)>>

IsDigits(t) == \A i \in 1..Len(t) : t[i] \in Digits

HasSign(t) == t # <<>> /\ Head(t) \in {"-", "+"}

Unsigned(t) == IF HasSign(t) THEN Tail(t) ELSE t

DotPos(t) == {i \in 1..Len(t) : t[i] = "."}

\* the text is an integer literal
IsIntText(t) == LET u == Unsigned(t) IN u # <<>> /\ IsDigits(u)

\* the text is a decimal literal with a decimal point
IsDecimalText(t) ==
  LET u == Unsigned(t) IN
    /\ Cardinality(DotPos(u)) = 1
    /\ LET p == CHOOSE i \in DotPos(u) : TRUE IN
         /\ IsDigits(SubSeq(u, 1, p - 1))
         /\ IsDigits(SubSeq(u, p + 1, Len(u)))
         /\ Len(u) > 1

IsNumText(t) == IsIntText(t) \/ IsDecimalText(t)

NaN == [k |-> "nan", s |-> <<>>, m |-> 0, e |-> 0]

Str(t) == [k |-> "str", s |-> t, m |-> 0, e |-> 0]

IntV(n) == [k |-> "int", s |-> <<>>, m |-> n, e |-> 0]

\* a decimal m / 10^e, kept without trailing zeros in the fraction
RECURSIVE FloatV(_, _)
FloatV(m, e) ==
  IF e > 0 /\ m % 10 = 0 THEN FloatV(m \div 10, e - 1)
  ELSE [k |-> "float", s |-> <<>>, m |-> m, e |-> e]

IsNum(v) == v.k \in {"int", "float"}

IsNa(v) == v.k = "nan"

\* the number a numeric text denotes: an integer literal gives an int
ParseNum(t) ==
  LET u == Unsigned(t)
      sg == IF HasSign(t) /\ Head(t) = "-" THEN -1 ELSE 1
  IN IF IsIntText(t) THEN IntV(sg * DigitsToNat(u))
     ELSE LET p == CHOOSE i \in DotPos(u) : TRUE
              ip == SubSeq(u, 1, p - 1)
              fp == SubSeq(u, p + 1, Len(u))
          IN FloatV(sg * (DigitsToNat(ip) * Pow10(Len(fp)) + DigitsToNat(fp)),
                    Len(fp))

\* int -> float conversion of a column that holds a float or a missing value
ToFloat(v) == IF v.k = "int" THEN FloatV(v.m, 0) ELSE v

\* numeric equality and order of two numbers (2 = 2.0)
NumEq(a, b) == a.m * Pow10(b.e) = b.m * Pow10(a.e)

NumLe(a, b) == a.m * Pow10(b.e) <= b.m * Pow10(a.e)

Abs(n) == IF n < 0 THEN -n ELSE n

RECURSIVE PadZeros(_, _)
PadZeros(t, n) == IF Len(t) >= n THEN t ELSE PadZeros(<<"0">> \o t, n)

\* str(int)
FormatInt(n) == (IF n < 0 THEN <<"-">> ELSE <<>>) \o NatToDigits(Abs(n))

\* repr(float): the shortest decimal, always with a fraction ("95.0")
FormatFloat(m, e) ==
  (IF m < 0 THEN <<"-">> ELSE <<>>)
    \o NatToDigits(Abs(m) \div Pow10(e)) \o <<".">>
    \o (IF e = 0 THEN <<"0">> ELSE PadZeros(NatToDigits(Abs(m) % Pow10(e)), e))

\* str(value) of a cell value that is not missing
StrOf(v) ==
  CASE v.k = "str" -> v.s
    [] v.k = "int" -> FormatInt(v.m)
    [] v.k = "float" -> FormatFloat(v.m, v.e)
    [] OTHER -> <<"n", "a", "n">>

\* equality of two cell values as Python objects in a hash table: a text
\* never equals a number, two missing values are one key
ValEq(a, b) ==
  IF IsNum(a) /\ IsNum(b) THEN NumEq(a, b)
  ELSE IF IsNa(a) \/ IsNa(b) THEN IsNa(a) /\ IsNa(b)
  ELSE a.k = b.k /\ a.s = b.s

(***************************************************************************)
(* Data frames and CSV files.  A frame is [cols, dtype, rows]: the column  *)
(* names in order, the dtype of each column ("int64", "float64",           *)
(* "object") and the rows, each a function from column name to value.  A  *)
(* file is [exists, cols, rows]: the header and the rows of field texts.   *)
(***************************************************************************)
colYear == <<"Y", "e", "a", "r">>
colLeague == <<"L", "e", "a", "g", "u", "e">>
colDivision == <<"D", "i", "v", "i", "s", "i", "o", "n">>
colTeam == <<"T", "e", "a", "m">>
colWins == <<"W", "i", "n", "s">>
colLosses == <<"L", "o", "s", "s", "e", "s">>
colTies == <<"T", "i", "e", "s">>
colWP == <<"W", "P">>
colGB == <<"G", "B">>
colPayroll == <<"P", "a", "y", "r", "o", "l", "l">>
colStatistic == <<"S", "t", "a", "t", "i", "s", "t", "i", "c">>
colPlayerName == <<"P", "l", "a", "y", "e", "r", "_", "N", "a", "m", "e">>
colValue == <<"V", "a", "l", "u", "e">>

Range(f) == {f[i] : i \in DOMAIN f}

RECURSIVE SeqUnion(_, _)
\* a followed by the elements of b that a lacks, in b's order
SeqUnion(a, b) ==
  IF b = <<>> THEN a
  ELSE IF Head(b) \in Range(a) THEN SeqUnion(a, Tail(b))
       ELSE SeqUnion(Append(a, Head(b)), Tail(b))

NoFile == [exists |-> FALSE, cols |-> <<>>, rows |-> <<>>]

\* a dict of an extractor: its keys in insertion order and its values
Dict(keys, vals) == [keys |-> keys, v |-> vals]

RECURSIVE KeysInOrder(_, _)
KeysInOrder(acc, data) ==
  IF data = <<>> THEN acc
  ELSE KeysInOrder(SeqUnion(acc, Head(data).keys), Tail(data))

\* the dtype pandas infers for a column from its values
InferValues(vals) ==
  IF vals # {} /\ \A v \in vals : v.k = "int" THEN "int64"
  ELSE IF (\A v \in vals : v.k \in {"int", "float", "nan"}) /\ (\E w \in vals : IsNum(w))
       THEN "float64"
  ELSE "object"

\* pd.DataFrame(data) of a list of dicts whose values are integers, texts
\* or None
DataFrame(data) ==
  LET cols == KeysInOrder(<<>>, data)
      val(i, c) == IF c \in Range(data[i].keys) THEN data[i].v[c] ELSE NaN
      dt == [c \in Range(cols) |-> InferValues({val(i, c) : i \in 1..Len(data)})]
  IN [cols |-> cols,
      dtype |-> dt,
      rows |-> [i \in 1..Len(data) |->
                 [c \in Range(cols) |->
                    IF dt[c] = "float64" THEN ToFloat(val(i, c)) ELSE val(i, c)]]]

\* the text to_csv writes for a value of a column of dtype dt
FieldText(v, dt) ==
  IF IsNa(v) THEN <<>>
  ELSE IF dt = "float64" THEN StrOf(ToFloat(v))
  ELSE StrOf(v)

\* df.to_csv(path, index=False): header and rows replace the file
to_csv(df) ==
  [exists |-> TRUE,
   cols |-> df.cols,
   rows |-> [i \in 1..Len(df.rows) |->
              [j \in 1..Len(df.cols) |->
                 FieldText(df.rows[i][df.cols[j]], df.dtype[df.cols[j]])]]]

\* df.to_csv(path, mode='a', header=False, index=False): rows are appended
\* by position under the header the file already has
to_csv_append(file, df) ==
  [file EXCEPT !.rows = file.rows \o to_csv(df).rows]

\* the field texts pandas reads as a missing value
NaTokens == {<<>>, <<"N", "A">>, <<"N", "a", "N">>, <<"n", "a", "n">>,
             <<"N", "o", "n", "e">>, <<"n", "u", "l", "l">>}

FieldAt(row, j) == IF j <= Len(row) THEN row[j] ELSE <<>>

\* the dtype read_csv infers for column j of the file
InferDtype(file, j) ==
  LET fields == {FieldAt(file.rows[i], j) : i \in 1..Len(file.rows)}
      present == fields \ NaTokens
  IN IF \A t \in present : IsIntText(t)
     THEN IF fields = present /\ fields # {} THEN "int64" ELSE "float64"
     ELSE IF \A t \in present : IsNumText(t) THEN "float64"
     ELSE "object"

\* the value read_csv gives a field of a column of dtype dt
ReadField(t, dt) ==
  IF t \in NaTokens THEN NaN
  ELSE IF dt = "int64" THEN ParseNum(t)
  ELSE IF dt = "float64" THEN ToFloat(ParseNum(t))
  ELSE Str(t)

\* pd.read_csv raises when a row has more fields than the header
ReadRaises(file) == \E i \in 1..Len(file.rows) : Len(file.rows[i]) > Len(file.cols)

ColIndex(cols, c) == CHOOSE j \in 1..Len(cols) : cols[j] = c

\* pd.read_csv(path)
read_csv(file) ==
  LET dt == [c \in Range(file.cols) |-> InferDtype(file, ColIndex(file.cols, c))] IN
  [cols |-> file.cols,
   dtype |-> dt,
   rows |-> [i \in 1..Len(file.rows) |->
              [c \in Range(file.cols) |->
                 ReadField(FieldAt(file.rows[i], ColIndex(file.cols, c)), dt[c])]]]

\* the dtype of a column of pd.concat([a, b]): da, db are the dtypes in a, b
\* ("none" when the frame lacks the column and fills it with NaN)
ConcatDtype(da, db) ==
  IF da = db THEN da
  ELSE IF "object" \in {da, db} THEN "object"
  ELSE "float64"

\* pd.concat([a, b], ignore_index=True)
concat(a, b) ==
  LET cols == SeqUnion(a.cols, b.cols)
      dt == [c \in Range(cols) |->
               ConcatDtype(IF c \in Range(a.cols) THEN a.dtype[c] ELSE "none",
                           IF c \in Range(b.cols) THEN b.dtype[c] ELSE "none")]
      conv(v, c) == IF dt[c] = "float64" THEN ToFloat(v) ELSE v
      rowOf(f, r) == [c \in Range(cols) |->
                        IF c \in Range(f.cols) THEN conv(r[c], c) ELSE NaN]
  IN [cols |-> cols,
      dtype |-> dt,
      rows |-> [i \in 1..Len(a.rows) |-> rowOf(a, a.rows[i])]
                 \o [i \in 1..Len(b.rows) |-> rowOf(b, b.rows[i])]]

SameKey(r1, r2, keys) == \A i \in 1..Len(keys) : ValEq(r1[keys[i]], r2[keys[i]])

RECURSIVE KeepFirst(_, _, _)
KeepFirst(rows, keys, i) ==
  IF i > Len(rows) THEN <<>>
  ELSE (IF \E j \in 1..(i - 1) : SameKey(rows[j], rows[i], keys)
        THEN <<>> ELSE <<rows[i]>>) \o KeepFirst(rows, keys, i + 1)

\* df.drop_duplicates(subset=keys, keep='first')
drop_duplicates(df, keys) == [df EXCEPT !.rows = KeepFirst(df.rows, keys, 1)]

\* the conventional key columns, in the order the code tests them
KeyOrder == <<colYear, colLeague, colTeam, colPlayerName, colStatistic>>

\* key_columns: the conventional key columns the frame has
key_columns(cols) == SelectSeq(KeyOrder, LAMBDA c : c \in Range(cols))

\* a save that gives up when the check for duplicates raises
save_to_csv_gives_up(data, file, ioerr) ==
  IF data = <<>> THEN file
  ELSE LET df_new == DataFrame(data) IN
    IF ~file.exists THEN to_csv(df_new)
    ELSE IF ioerr \/ ReadRaises(file) THEN file
    ELSE LET df_existing == read_csv(file)
             keys == key_columns(df_new.cols)
         IN IF keys # <<>>
            THEN to_csv(drop_duplicates(concat(df_existing, df_new), keys))
            ELSE to_csv_append(file, df_new)

\* save_to_csv(data, filename, ...): the file after the call.  ioerr is an
\* error raised while the existing file is read or rewritten.
save_to_csv(data, file, ioerr) ==
  IF data = <<>> THEN file
  ELSE LET df_new == DataFrame(data) IN
    IF ~file.exists THEN to_csv(df_new)
    ELSE IF ioerr \/ ReadRaises(file) THEN to_csv_append(file, df_new)
    ELSE LET df_existing == read_csv(file)
             keys == key_columns(df_new.cols)
         IN IF keys # <<>>
            THEN to_csv(drop_duplicates(concat(df_existing, df_new), keys))
            ELSE to_csv_append(file, df_new)

\* the levels of the messages save_to_csv logs, in their order
save_to_csv_log(data, file, ioerr) ==
  IF data = <<>> THEN <<>>
  ELSE LET df_new == DataFrame(data) IN
    IF ~file.exists THEN <<"DEBUG">>
    ELSE IF ioerr \/ ReadRaises(file) THEN <<"ERROR", "WARNING">>
    ELSE LET df_existing == read_csv(file)
             keys == key_columns(df_new.cols)
             df_combined == concat(df_existing, df_new)
             rows_after == Len(drop_duplicates(df_combined, keys).rows)
         IN IF keys # <<>>
            THEN IF rows_after - Len(df_existing.rows) > 0
                    /\ Len(df_combined.rows) - rows_after > 0
                 THEN <<"DEBUG", "DEBUG">> ELSE <<"DEBUG">>
            ELSE <<"WARNING">>

(***************************************************************************)
(* The tabular document: a cell is [text, cls, link, rowspan] with text    *)
(* the cell's text, cls its class attribute, link = [has, text] the first  *)
(* <a> element in it and rowspan the attribute's text (<<>> when absent).  *)
(***************************************************************************)
tEast == <<"E", "a", "s", "t">>
tCentral == <<"C", "e", "n", "t", "r", "a", "l">>
tWest == <<"W", "e", "s", "t">>
tBanner == <<"b", "a", "n", "n", "e", "r">>
tHeader == <<"h", "e", "a", "d", "e", "r">>
\* another spelling, which no class attribute of the pages has
tGray == <<"g", "r", "a", "y">>

tGrey == <<"g", "r", "e", "y">>
tDatacolBlue == <<"d", "a", "t", "a", "c", "o", "l", "B", "l", "u", "e">>
tAllStar == <<"A", "l", "l", "-", "S", "t", "a", "r">>
tWorldSeries == <<"W", "o", "r", "l", "d", " ", "S", "e", "r", "i", "e", "s">>
tFinal == <<"F", "i", "n", "a", "l">>
tFirstHalf == <<"1", "s", "t", " ", "H", "a", "l", "f">>
tSecondHalf == <<"2", "n", "d", " ", "H", "a", "l", "f">>
tSplitA == <<"(", "a", ")">>
tSplitB == <<"(", "b", ")">>
tDashes == <<"-", "-">>
tStandard == <<"S", "t", "a", "n", "d", "a", "r", "d">>

NoLink == [has |-> FALSE, text |-> <<>>]

Link(t) == [has |-> TRUE, text |-> t]

Cell(t, cls, link, rowspan) ==
  [text |-> t, cls |-> cls, link |-> link, rowspan |-> rowspan]

\* a plain data cell
TextCell(t) == Cell(t, <<>>, NoLink, <<>>)

\* Python truthiness of a text or None: a value is None or a text here
Truthy(v) == ~IsNa(v) /\ v.s # <<>>

\* x if x else None
OrNone(v) == IF Truthy(v) THEN v ELSE NaN

(***************************************************************************)
(* extract_team_standings                                                  *)
(***************************************************************************)
\* cells[k].text.strip(), k counted from 0 as in the code
At(cells, k) == Strip(cells[k + 1].text)

\* float(t) if t else 0 does not raise
FloatOk(t) == t = <<>> \/ IsNumText(t)

\* float(t) if t else 0
FloatOf(t) == IF t = <<>> THEN IntV(0) ELSE ParseNum(t)

\* a cell text is a payroll when it starts with the currency marker
payroll_of(t) ==
  IF StartsWith(t, <<"$">>)
  THEN Str(Strip(Replace(Replace(t, <<"$">>, <<>>), <<",">>, <<>>)))
  ELSE NaN

gbLong == <<cATilde, cFHook, caCirc, cEuro, cSCaron, cATilde, cLowQuote, cACirc, cHalf>>
gbShort == <<cACirc, cHalf>>

\* the repair of the games-behind text
clean_gb_nothing(gb) == gb

clean_gb(gb) ==
  IF IsNa(gb) THEN gb
  ELSE IF gb.s = tDashes THEN Str(<<"0">>)
  ELSE IF gb.s # <<>> /\ Contains(gb.s, gbLong)
       THEN Str(Replace(gb.s, gbLong, <<".", "5">>))
  ELSE IF gb.s # <<>> /\ Contains(gb.s, gbShort)
       THEN Str(Replace(gb.s, gbShort, <<".", "5">>))
  ELSE IF gb.s # <<>> /\ Contains(gb.s, <<",">>)
       THEN Str(Replace(gb.s, <<",">>, <<".">>))
  ELSE gb

\* the columns read without the test for a ties column
raw_fields_no_ties(cells, offset) ==
  LET n == Len(cells)
      none == [wins |-> NaN, losses |-> NaN, ties |-> NaN, wp |-> NaN,
               gb |-> NaN, payroll |-> NaN]
  IN IF n >= 5 + offset
     THEN [none EXCEPT !.wins = Str(At(cells, 1 + offset)),
                       !.losses = Str(At(cells, 2 + offset)),
                       !.wp = Str(At(cells, 3 + offset)),
                       !.gb = Str(At(cells, 4 + offset)),
                       !.payroll = IF n >= 6 + offset
                                   THEN payroll_of(At(cells, 5 + offset)) ELSE NaN]
     ELSE none

\* the columns read from a row, before the repair: wins, losses, ties, win
\* percentage, games behind and payroll at the given column offset
raw_fields(cells, offset) ==
  LET n == Len(cells)
      none == [wins |-> NaN, losses |-> NaN, ties |-> NaN, wp |-> NaN,
               gb |-> NaN, payroll |-> NaN]
  IN IF n >= 5 + offset
     THEN LET wl == [none EXCEPT !.wins = Str(At(cells, 1 + offset)),
                                 !.losses = Str(At(cells, 2 + offset))]
          IN IF n >= 7 + offset
             THEN LET third_cell == At(cells, 3 + offset)
                      fourth_cell == At(cells, 4 + offset)
                  IN IF FloatOk(third_cell) /\ FloatOk(fourth_cell)
                     THEN LET fourth_val == FloatOf(fourth_cell) IN
                          IF /\ NumLe(IntV(0), fourth_val)
                             /\ NumLe(fourth_val, IntV(1))
                             /\ Contains(fourth_cell, <<".">>)
                          THEN [wl EXCEPT
                                 !.ties = IF third_cell # <<>> /\ third_cell # <<"0">>
                                          THEN Str(third_cell) ELSE NaN,
                                 !.wp = Str(fourth_cell),
                                 !.gb = Str(At(cells, 5 + offset)),
                                 !.payroll = IF n >= 7 + offset
                                             THEN payroll_of(At(cells, 6 + offset))
                                             ELSE NaN]
                          ELSE [wl EXCEPT
                                 !.wp = Str(third_cell),
                                 !.gb = Str(fourth_cell),
                                 !.payroll = IF n >= 6 + offset
                                             THEN payroll_of(At(cells, 5 + offset))
                                             ELSE NaN]
                     ELSE [wl EXCEPT !.wp = Str(third_cell), !.gb = Str(fourth_cell)]
             ELSE [wl EXCEPT !.wp = Str(At(cells, 3 + offset)),
                             !.gb = Str(At(cells, 4 + offset))]
     ELSE none

\* the fields as stored: games behind repaired, empty texts turned to None
standings_fields(cells, offset) ==
  LET f == raw_fields(cells, offset)
      gb == clean_gb(f.gb)
  IN [wins |-> OrNone(f.wins),
      losses |-> OrNone(f.losses),
      ties |-> IF ~Truthy(f.ties) \/ f.ties.s = <<"0">> THEN NaN ELSE f.ties,
      wp |-> OrNone(f.wp),
      gb |-> OrNone(gb),
      payroll |-> OrNone(f.payroll)]

split_indicators == {tFinal, tFirstHalf, tSecondHalf, tSplitA, tSplitB}

\* the second cell names a split-season column
is_split(cells) == Len(cells) > 1 /\ At(cells, 1) \in split_indicators

\* offset: 1 when the second cell is a split-season marker
split_offset_zero(cells) == 0

split_offset(cells) == IF is_split(cells) THEN 1 ELSE 0

\* skip_row: a split-season row other than the "Final" one
skip_row_never(cells) == FALSE

skip_row(cells) == is_split(cells) /\ At(cells, 1) # tFinal

StandingsCols ==
  <<colYear, colLeague, colDivision, colTeam, colWins, colLosses, colTies,
    colWP, colGB, colPayroll>>

standing_record(year, league, division, team_name, f) ==
  Dict(StandingsCols,
       [c \in Range(StandingsCols) |->
          CASE c = colYear -> Str(year)
            [] c = colLeague -> Str(league)
            [] c = colDivision -> Str(division)
            [] c = colTeam -> Str(team_name)
            [] c = colWins -> f.wins
            [] c = colLosses -> f.losses
            [] c = colTies -> f.ties
            [] c = colWP -> f.wp
            [] c = colGB -> f.gb
            [] c = colPayroll -> f.payroll])

\* an iteration that takes the text of the first cell for the team name
\* when the cell has no link
standings_row_text_name(cells, division, year, league) ==
  LET same == [division |-> division, emit |-> <<>>] IN
  IF cells = <<>> THEN same
  ELSE IF cells[1].rowspan # <<>> /\ Strip(cells[1].text) \in {tEast, tCentral, tWest}
       THEN [division |-> Strip(cells[1].text), emit |-> <<>>]
  ELSE IF Contains(cells[1].cls, tBanner) \/ Contains(cells[1].cls, tHeader) THEN same
  ELSE LET team_name == IF cells[1].link.has THEN Strip(cells[1].link.text)
                        ELSE Strip(cells[1].text)
       IN IF Contains(team_name, tAllStar) \/ Contains(team_name, tWorldSeries)
             \/ team_name = <<>> \/ skip_row(cells)
          THEN same
          ELSE [division |-> division,
                emit |-> <<standing_record(year, league, division, team_name,
                              standings_fields(cells, split_offset(cells)))>>]

\* an iteration that never leaves the division it started with
standings_row_one_division(cells, division, year, league) ==
  LET same == [division |-> division, emit |-> <<>>] IN
  IF cells = <<>> THEN same
  ELSE IF cells[1].rowspan # <<>> \/ ~cells[1].link.has THEN same
  ELSE IF Contains(cells[1].cls, tBanner) \/ Contains(cells[1].cls, tHeader) THEN same
  ELSE LET team_name == Strip(cells[1].link.text) IN
       IF Contains(team_name, tAllStar) \/ Contains(team_name, tWorldSeries)
          \/ team_name = <<>> \/ skip_row(cells)
       THEN same
       ELSE [division |-> division,
             emit |-> <<standing_record(year, league, division, team_name,
                           standings_fields(cells, split_offset(cells)))>>]

\* one iteration of the loop over the rows: the division after the row and
\* the records the row appends to data (none or one)
standings_row(cells, division, year, league) ==
  LET same == [division |-> division, emit |-> <<>>] IN
  IF cells = <<>> THEN same
  ELSE LET first_cell_class == cells[1].cls
           first_cell_text == Strip(cells[1].text)
           first_cell_rowspan == cells[1].rowspan
       IN IF first_cell_rowspan # <<>> /\ first_cell_text \in {tEast, tCentral, tWest}
          THEN [division |-> first_cell_text, emit |-> <<>>]
          ELSE IF Contains(first_cell_class, tBanner) \/ Contains(first_cell_class, tHeader)
          THEN same
          ELSE IF ~cells[1].link.has THEN same
          ELSE LET team_name == Strip(cells[1].link.text) IN
               IF Contains(team_name, tAllStar) \/ Contains(team_name, tWorldSeries)
               THEN same
               ELSE IF team_name = <<>> THEN same
               ELSE IF skip_row(cells) THEN same
               ELSE [division |-> division,
                     emit |-> <<standing_record(year, league, division, team_name,
                                   standings_fields(cells, split_offset(cells)))>>]

\* extract_team_standings(ba_table, year, league, log_file): the loop over
\* the rows, from the division and the data so far
RECURSIVE standings_loop(_, _, _, _, _)
standings_loop(rows, division, data, year, league) ==
  IF rows = <<>> THEN data
  ELSE LET r == standings_row(Head(rows), division, year, league) IN
       standings_loop(Tail(rows), r.division, data \o r.emit, year, league)

extract_team_standings(rows, year, league) ==
  standings_loop(rows, tStandard, <<>>, year, league)

\* the loop when reading a row may raise (the element went stale, the
\* driver failed): frows are [cells, raises]; the except clause of the row
\* logs the error and the loop goes on.  Every statement that may raise
\* stands before the assignment of the division and before data.append, so
\* a row that raises leaves both.  A loop that stops at the first error:
RECURSIVE standings_loop_stops(_, _, _, _, _, _)
standings_loop_stops(frows, division, data, errors, year, league) ==
  IF frows = <<>> THEN [data |-> data, errors |-> errors]
  ELSE IF Head(frows).raises THEN [data |-> data, errors |-> errors + 1]
  ELSE LET r == standings_row(Head(frows).cells, division, year, league) IN
       standings_loop_stops(Tail(frows), r.division, data \o r.emit, errors, year, league)

RECURSIVE standings_loop_try(_, _, _, _, _, _)
standings_loop_try(frows, division, data, errors, year, league) ==
  IF frows = <<>> THEN [data |-> data, errors |-> errors]
  ELSE IF Head(frows).raises
       THEN standings_loop_try(Tail(frows), division, data, errors + 1, year, league)
  ELSE LET r == standings_row(Head(frows).cells, division, year, league) IN
       standings_loop_try(Tail(frows), r.division, data \o r.emit, errors, year, league)

(***************************************************************************)
(* extract_player_leaders.  A row is [cls, cells]: the class attribute of  *)
(* the <tr> and its <td> cells.                                            *)
(***************************************************************************)
Row(cls, cells) == [cls |-> cls, cells |-> cells]

\* int(text) does not raise
IntOk(t) == IsIntText(Strip(t))

LeaderCols == <<colYear, colLeague, colStatistic, colPlayerName, colTeam, colValue>>

\* a record that loses the statistic
leader_record_no_statistic(year, league, statistic, player_name, team, value) ==
  Dict(LeaderCols,
       [c \in Range(LeaderCols) |->
          CASE c = colYear -> Str(year)
            [] c = colLeague -> Str(league)
            [] c = colStatistic -> NaN
            [] c = colPlayerName -> player_name
            [] c = colTeam -> team
            [] c = colValue -> value])

\* a record that loses the value
leader_record_no_value(year, league, statistic, player_name, team, value) ==
  Dict(LeaderCols,
       [c \in Range(LeaderCols) |->
          CASE c = colYear -> Str(year)
            [] c = colLeague -> Str(league)
            [] c = colStatistic -> statistic
            [] c = colPlayerName -> player_name
            [] c = colTeam -> team
            [] c = colValue -> NaN])

leader_record(year, league, statistic, player_name, team, value) ==
  Dict(LeaderCols,
       [c \in Range(LeaderCols) |->
          CASE c = colYear -> Str(year)
            [] c = colLeague -> Str(league)
            [] c = colStatistic -> statistic
            [] c = colPlayerName -> player_name
            [] c = colTeam -> team
            [] c = colValue -> value])

\* the name trimmed, its asterisks kept
strip_only(t) == Strip(t)

\* name.replace('*', '').strip()
strip_asterisks(t) == Strip(Replace(t, <<"*">>, <<>>))

\* the state of the loop before the first row
NoGroup == [statistic |-> NaN, value |-> NaN, player |-> NaN]

\* the retained player of a group-start row
retained_never(player_rowspan, player_name) == NaN

\* a player kept whatever the rowspan of the cell
retained_always(player_rowspan, player_name) == Str(player_name)

retained(player_rowspan, player_name) ==
  IF player_rowspan # <<>> /\ ParseNum(Strip(player_rowspan)).m > 1
  THEN Str(player_name) ELSE NaN

\* one iteration of the loop over the rows: the group state after the row
\* (cur = [statistic, value, player]) and the records the row appends
leaders_row(row, cur, year, league) ==
  LET cells == row.cells
      same == [cur |-> cur, emit |-> <<>>]
  IN IF cells = <<>> THEN same
     ELSE LET first_cell_class == cells[1].cls
              num_cells == Len(cells)
          IN IF Contains(first_cell_class, tGrey) \/ Contains(row.cls, tGrey) THEN same
             ELSE IF Contains(first_cell_class, tBanner) \/ Contains(first_cell_class, tHeader)
                  THEN same
             ELSE IF num_cells >= 5 /\ Contains(first_cell_class, tDatacolBlue)
                  THEN LET current_statistic == Str(At(cells, 0))
                           player_name == strip_asterisks(At(cells, 1))
                           team == Str(At(cells, 2))
                           current_value == Str(At(cells, 3))
                           player_rowspan == cells[2].rowspan
                       IN IF player_rowspan # <<>> /\ ~IntOk(player_rowspan)
                          THEN \* int() raises after the statistic and the value
                               \* are set: the except clause continues
                               [cur |-> [cur EXCEPT !.statistic = current_statistic,
                                                    !.value = current_value],
                                emit |-> <<>>]
                          ELSE [cur |-> [statistic |-> current_statistic,
                                         value |-> current_value,
                                         player |-> retained(player_rowspan, player_name)],
                                emit |-> <<leader_record(year, league, current_statistic,
                                              Str(player_name), team, current_value)>>]
             ELSE IF num_cells = 2 /\ Truthy(cur.statistic) /\ Truthy(cur.value)
                  THEN [cur |-> cur,
                        emit |-> <<leader_record(year, league, cur.statistic,
                                      Str(strip_asterisks(At(cells, 0))),
                                      Str(At(cells, 1)), cur.value)>>]
             ELSE IF num_cells = 1 /\ Truthy(cur.player) /\ Truthy(cur.statistic)
                  THEN [cur |-> cur,
                        emit |-> <<leader_record(year, league, cur.statistic,
                                      cur.player, Str(At(cells, 0)), cur.value)>>]
             ELSE IF num_cells = 3 /\ Truthy(cur.statistic)
                  THEN [cur |-> cur,
                        emit |-> <<leader_record(year, league, cur.statistic,
                                      Str(strip_asterisks(At(cells, 0))),
                                      Str(At(cells, 1)), Str(At(cells, 2)))>>]
             ELSE same

RECURSIVE leaders_loop(_, _, _, _, _)
leaders_loop(rows, cur, data, year, league) ==
  IF rows = <<>> THEN data
  ELSE LET r == leaders_row(Head(rows), cur, year, league) IN
       leaders_loop(Tail(rows), r.cur, data \o r.emit, year, league)

\* extract_player_leaders(ba_table, year, league, log_file)
extract_player_leaders(rows, year, league) ==
  leaders_loop(rows, NoGroup, <<>>, year, league)

(***************************************************************************)
(* extract_team_stats_complete.  The table is the sequence of its rows,    *)
(* each the sequence of its cells; the header row is the first row with a  *)
(* cell of class "banner".                                                 *)
(***************************************************************************)
tPitching == <<"P", "i", "t", "c", "h", "i", "n", "g">>
tHitting == <<"H", "i", "t", "t", "i", "n", "g">>
tSeasonalEvents == <<"S", "e", "a", "s", "o", "n", "a", "l", " ", "E", "v", "e", "n", "t", "s">>
tTEAM == <<"T", "E", "A", "M">>

EraYears == {<<"2", "0", "0", "2">>, <<"2", "0", "0", "3">>, <<"2", "0", "0", "4">>}

EXPECTED_COLUMNS ==
  <<<<"T", "E", "A", "M">>, <<"W">>, <<"L">>, <<"E", "R", "A">>, <<"G">>, <<"C", "G">>, <<"S", "H", "O">>, <<"S", "V">>, <<"S", "V", "O">>, <<"I", "P">>, <<"H", "A">>, <<"R">>, <<"E", "R">>,
    <<"H", "R">>, <<"H", "B", "P">>, <<"B", "B">>, <<"S", "O">>>>

\* COLUMN_MAPPING.get(col, col)
COLUMN_MAPPING(col) ==
  CASE col = <<"H">> -> <<"H", "A">>
    [] col = <<"S", "H">> -> <<"S", "H", "O">>
    [] col = <<"T", "e", "a", "m">> -> <<"T", "E", "A", "M">>
    [] OTHER -> col

\* the rows with a cell whose class is "banner"
BannerRows(table) ==
  {i \in 1..Len(table) : \E j \in 1..Len(table[i]) : table[i][j].cls = tBanner}

\* html_columns: the texts of the header cells that are not empty
html_columns(header_cells) ==
  SelectSeq([i \in 1..Len(header_cells) |-> Strip(header_cells[i].text)],
            LAMBDA t : t # <<>>)

normalized_html_columns(html) == [i \in 1..Len(html) |-> COLUMN_MAPPING(html[i])]

\* html_col_to_index[c], counted from 0: the last position of the label
target_list_index(normalized, c) ==
  (CHOOSE i \in 1..Len(EXPECTED_COLUMNS) : EXPECTED_COLUMNS[i] = c) - 1

html_col_to_index(normalized, c) ==
  (CHOOSE i \in 1..Len(normalized) :
     normalized[i] = c /\ \A j \in (i + 1)..Len(normalized) : normalized[j] # c) - 1

\* the text of a cell as a statistic value: trimmed, commas removed
stat_value(cell) == Str(Replace(Strip(cell.text), <<",">>, <<>>))

\* col_name.upper() != "TEAM"
IsTeamLabel(t) ==
  /\ Len(t) = 4
  /\ t[1] \in {"T", "t"} /\ t[2] \in {"E", "e"} /\ t[3] \in {"A", "a"} /\ t[4] \in {"M", "m"}

\* dict assignment: the key keeps its place when it exists
DictSet(d, key, val) ==
  [keys |-> IF key \in Range(d.keys) THEN d.keys ELSE Append(d.keys, key),
   v |-> [c \in Range(d.keys) \cup {key} |-> IF c = key THEN val ELSE d.v[c]]]

\* the loop over EXPECTED_COLUMNS for one row
RECURSIVE era_columns(_, _, _, _)
era_columns(row_data, expected, normalized, cells) ==
  IF expected = <<>> THEN row_data
  ELSE LET expected_col == Head(expected)
           rest == Tail(expected)
       IN IF expected_col = tTEAM THEN era_columns(row_data, rest, normalized, cells)
          ELSE IF expected_col \in Range(normalized)
               THEN LET cell_idx == html_col_to_index(normalized, expected_col) IN
                    era_columns(DictSet(row_data, expected_col,
                                        IF cell_idx < Len(cells)
                                        THEN stat_value(cells[cell_idx + 1]) ELSE NaN),
                                rest, normalized, cells)
               ELSE era_columns(DictSet(row_data, expected_col, NaN),
                                rest, normalized, cells)

\* the loop over range(max_idx) for one row
RECURSIVE general_columns(_, _, _, _)
general_columns(row_data, idx, html, cells) ==
  LET max_idx == IF Len(cells) < Len(html) THEN Len(cells) ELSE Len(html) IN
  IF idx >= max_idx THEN row_data
  ELSE LET col_name == html[idx + 1] IN
       general_columns(IF IsTeamLabel(col_name) THEN row_data
                       ELSE DictSet(row_data, col_name, stat_value(cells[idx + 1])),
                       idx + 1, html, cells)

\* one iteration of the loop over the rows: the records the row appends
team_stats_row(cells, html, era, year, league) ==
  IF cells = <<>> \/ Len(cells) < 3 THEN <<>>
  ELSE IF Contains(cells[1].cls, tBanner) \/ Contains(cells[1].cls, tHeader) THEN <<>>
  ELSE LET team_name == IF cells[1].link.has THEN Strip(cells[1].link.text)
                        ELSE Strip(cells[1].text)
       IN IF team_name = <<>> THEN <<>>
          ELSE IF \/ Contains(team_name, tAllStar) \/ Contains(team_name, tWorldSeries)
                  \/ Contains(team_name, tSeasonalEvents)
               THEN <<>>
          ELSE LET row_data == Dict(<<colYear, colLeague, colTeam>>,
                                    [c \in {colYear, colLeague, colTeam} |->
                                       CASE c = colYear -> Str(year)
                                         [] c = colLeague -> Str(league)
                                         [] c = colTeam -> Str(team_name)])
               IN IF era
                  THEN <<era_columns(row_data, EXPECTED_COLUMNS,
                                     normalized_html_columns(html), cells)>>
                  ELSE <<general_columns(row_data, 0, html, cells)>>

RECURSIVE team_stats_loop(_, _, _, _, _, _)
team_stats_loop(rows, data, html, era, year, league) ==
  IF rows = <<>> THEN data
  ELSE team_stats_loop(Tail(rows),
                       data \o team_stats_row(Head(rows), html, era, year, league),
                       html, era, year, league)

\* extract_team_stats_complete(ba_table, year, league, stats_type, log_file)
extract_team_stats_complete(table, year, league, stats_type) ==
  IF BannerRows(table) = {} THEN <<>>
  ELSE LET header == table[CHOOSE i \in BannerRows(table) :
                             \A j \in BannerRows(table) : i <= j]
           html == html_columns(header)
       IN IF html = <<>> THEN <<>>
          ELSE team_stats_loop(table, <<>>, html,
                               stats_type = tPitching /\ year \in EraYears,
                               year, league)

(***************************************************************************)
(* data_cleaner.py: the cleaning functions and clean_csv                   *)
(***************************************************************************)
\* the alternatives of the regular expression, in its order
half_patterns ==
  << <<cACirc, cHalf>>, <<cHalf>>, <<cATilde, cLowQuote, cACirc, cHalf>>,
     <<cATilde, cFHook, caCirc, cEuro, cSCaron, cATilde, cLowQuote, cACirc, cHalf>> >>

clean_special_characters(v) ==
  IF IsNa(v) THEN v ELSE Str(ReSubAlt(StrOf(v), half_patterns, <<".", "5">>))

clean_placeholder_values(v) ==
  IF IsNa(v) THEN NaN
  ELSE IF Strip(StrOf(v)) \in {tDashes, <<>>} THEN NaN
  ELSE v

clean_asterisks(v) ==
  IF IsNa(v) THEN v ELSE Str(Strip(Replace(StrOf(v), <<"*">>, <<>>)))

clean_whitespace(v) == IF IsNa(v) THEN v ELSE Str(Strip(StrOf(v)))

standardize_decimal_format(v) ==
  IF IsNa(v) THEN v
  ELSE LET s0 == Strip(StrOf(v))
           s1 == IF StartsWith(s0, <<",">>) /\ Len(s0) > 1
                 THEN <<".">> \o Tail(s0) ELSE s0
       IN IF StartsWith(s1, <<".">>) /\ Len(s1) > 1
          THEN Str(<<"0">> \o s1) ELSE Str(s1)

clean_question_marks(v) ==
  IF IsNa(v) THEN v
  ELSE LET s0 == Strip(StrOf(v)) IN
       IF EndsWith(s0, <<"?">>)
       THEN Str(Strip(SubSeq(s0, 1, Len(s0) - 1)))
       ELSE Str(s0)

HasChar(t, chars) == \E i \in 1..Len(t) : t[i] \in chars

\* df[c].astype(str) of a value
AsStr(v) == StrOf(v)

\* a column of a frame: its dtype and its values in row order
Column(df, c) ==
  [dtype |-> df.dtype[c], vals |-> [i \in 1..Len(df.rows) |-> df.rows[i][c]]]

\* series.apply(F): the dtype is inferred from the values returned
Apply(col, F(_)) ==
  LET vals == [i \in 1..Len(col.vals) |-> F(col.vals[i])] IN
  [dtype |-> IF vals = <<>> THEN col.dtype
             ELSE IF \E i \in 1..Len(vals) : vals[i].k = "str" THEN "object"
             ELSE IF \A i \in 1..Len(vals) : vals[i].k = "int" THEN "int64"
             ELSE "float64",
   vals |-> vals]

\* some value of the column, as text, has one of the characters
AnyHasChar(col, chars) ==
  \E i \in 1..Len(col.vals) : HasChar(AsStr(col.vals[i]), chars)

\* pd.to_numeric(value, errors='coerce') of one value
to_numeric_value(v) ==
  IF IsNa(v) THEN NaN
  ELSE IF IsNum(v) THEN v
  ELSE IF IsNumText(v.s) THEN ParseNum(v.s)
  ELSE NaN

\* convert_to_numeric(series, column_name): the column ends int64 when
\* every value is an integer and float64 otherwise
convert_to_numeric(col) ==
  LET vals == [i \in 1..Len(col.vals) |->
                 to_numeric_value(clean_special_characters(
                   clean_placeholder_values(col.vals[i])))]
      dt == IF \A i \in 1..Len(vals) : vals[i].k = "int" THEN "int64" ELSE "float64"
  IN [dtype |-> dt,
      vals |-> [i \in 1..Len(vals) |->
                  IF dt = "float64" THEN ToFloat(vals[i]) ELSE vals[i]]]

\* the characters of the class the special-character test looks for
special_chars ==
  {cATilde, cLowQuote, cACirc, cHalf, cFHook, caCirc, cEuro, cSCaron}

numeric_like_columns ==
  <<<<"Y", "e", "a", "r">>, <<"W", "i", "n", "s">>,
    <<"L", "o", "s", "s", "e", "s">>, <<"T", "i", "e", "s">>, <<"G">>,
    <<"A", "B">>, <<"R">>, <<"H">>, <<"2", "B">>, <<"3", "B">>,
    <<"H", "R">>, <<"R", "B", "I">>, <<"B", "B">>, <<"S", "O">>,
    <<"S", "B">>, <<"W">>, <<"L">>, <<"C", "G">>, <<"S", "H", "O">>,
    <<"S", "V">>, <<"I", "P">>, <<"G", "B">>, <<"V", "a", "l", "u", "e">>>>

numeric_columns ==
  <<<<"Y", "e", "a", "r">>, <<"W", "i", "n", "s">>,
    <<"L", "o", "s", "s", "e", "s">>, <<"T", "i", "e", "s">>, <<"G">>,
    <<"A", "B">>, <<"R">>, <<"H">>, <<"2", "B">>, <<"3", "B">>,
    <<"H", "R">>, <<"R", "B", "I">>, <<"B", "B">>, <<"S", "O">>,
    <<"S", "B">>, <<"W">>, <<"L">>, <<"C", "G">>, <<"S", "H", "O">>,
    <<"S", "V">>, <<"I", "P">>>>

decimal_numeric_columns ==
  <<<<"E", "R", "A">>, <<"A", "V", "G">>, <<"O", "B", "P">>,
    <<"S", "L", "G">>, <<"O", "P", "S">>, <<"W", "P">>, <<"B", "A">>,
    <<"P", "C", "T">>, <<"G", "B">>, <<"V", "a", "l", "u", "e">>>>

decimal_markers ==
  <<<<"A", "V", "G">>, <<"B", "A">>, <<"E", "R", "A">>, <<"W", "P">>,
    <<"O", "B", "P">>, <<"S", "L", "G">>, <<"P", "C", "T">>>>

tPlayer == <<"P", "l", "a", "y", "e", "r">>
tName == <<"N", "a", "m", "e">>
tTeam == <<"T", "e", "a", "m">>

InSeq(x, seq) == \E i \in 1..Len(seq) : seq[i] = x

\* 3. special characters in a text column
special_col(col) ==
  IF col.dtype = "object" /\ AnyHasChar(col, special_chars)
  THEN Apply(col, clean_special_characters) ELSE col

\* 4. question marks in a numeric-like column
question_col(c, col) ==
  IF InSeq(c, numeric_like_columns) /\ AnyHasChar(col, {"?"})
  THEN Apply(col, clean_question_marks) ELSE col

\* 5. placeholders in a column
placeholder_col(col) ==
  IF \E i \in 1..Len(col.vals) : Strip(AsStr(col.vals[i])) = tDashes
  THEN Apply(col, clean_placeholder_values) ELSE col

is_name_column(c) == Contains(c, tPlayer) \/ Contains(c, tName) \/ Contains(c, tTeam)

\* 6. asterisks in a name column
asterisk_col(c, col) ==
  IF is_name_column(c) /\ col.dtype = "object" /\ AnyHasChar(col, {"*"})
  THEN Apply(col, clean_asterisks) ELSE col

\* 7. whitespace in a text column
whitespace_col(col) ==
  IF col.dtype = "object" THEN Apply(col, clean_whitespace) ELSE col

is_decimal_column(c) ==
  \E i \in 1..Len(decimal_markers) : Contains(c, decimal_markers[i])

\* 8. decimal format of a decimal column
decimal_col(c, col) ==
  IF is_decimal_column(c) THEN Apply(col, standardize_decimal_format) ELSE col

\* 9. numeric type of a listed column
numeric_col(c, col) ==
  LET ints == IF InSeq(c, numeric_columns) THEN convert_to_numeric(col) ELSE col
  IN IF InSeq(c, decimal_numeric_columns) THEN convert_to_numeric(ints) ELSE ints

\* steps 3 to 9 on one column: each step of clean_csv loops over columns and
\* reads and writes one column at a time, so the steps are applied to each
\* column in their order
clean_column(c, col) ==
  LET c3 == special_col(col)
      c4 == question_col(c, c3)
      c5 == placeholder_col(c4)
      c6 == asterisk_col(c, c5)
      c7 == whitespace_col(c6)
      c8 == decimal_col(c, c7)
  IN numeric_col(c, c8)

\* 1. remove completely empty rows
step_dropna(df) ==
  [df EXCEPT !.rows = SelectSeq(df.rows, LAMBDA r : \E c \in Range(df.cols) : ~IsNa(r[c]))]

\* 2. remove duplicate rows by the key columns
step_dedup(df) ==
  LET keys == key_columns(df.cols) IN
  IF keys # <<>> THEN drop_duplicates(df, keys) ELSE df

\* steps 3 to 9 on the frame
step_columns(df) ==
  LET out == [c \in Range(df.cols) |-> clean_column(c, Column(df, c))] IN
  [cols |-> df.cols,
   dtype |-> [c \in Range(df.cols) |-> out[c].dtype],
   rows |-> [i \in 1..Len(df.rows) |-> [c \in Range(df.cols) |-> out[c].vals[i]]]]

\* clean_csv(filepath, ...): the file written to the output folder
clean_csv(file) == to_csv(step_columns(step_dedup(step_dropna(read_csv(file)))))

(***************************************************************************)
(* The runs: main of scraper_al.py and of scraper_minor.py.  A unit is a   *)
(* season of a league; the checkpoint file holds the units processed; the  *)
(* output folder holds one CSV file per league and kind of table.          *)
(***************************************************************************)
tFL == <<"F", "L">>

tPL == <<"P", "L">>

tUA == <<"U", "A">>

tAA == <<"A", "A">>

LEAGUE_SHORT == <<"A", "L">>

\* MINOR_LEAGUES, the league codes in the order of the dictionary
MINOR_LEAGUES == <<tFL, tPL, tUA, tAA>>

Unit(league, year) == [league |-> league, year |-> year]

\* the checkpoint file, absent
NoCheckpoint == [exists |-> FALSE, league |-> <<>>, processed |-> {}]

\* save_checkpoint(processed_years) of scraper_al.py: the file written
save_checkpoint(processed_years) ==
  [exists |-> TRUE, league |-> LEAGUE_SHORT, processed |-> processed_years]

\* load_checkpoint(): the processed years of a checkpoint of this league
load_checkpoint(checkpoint) ==
  IF checkpoint.exists /\ checkpoint.league = LEAGUE_SHORT THEN checkpoint.processed ELSE {}

\* save_checkpoint_multi(processed_data) of scraper_minor.py
save_checkpoint_multi(processed_data) ==
  [exists |-> TRUE, league |-> <<>>, processed |-> processed_data]

\* load_checkpoint_multi()
load_checkpoint_multi(checkpoint) ==
  IF checkpoint.exists THEN checkpoint.processed ELSE {}

\* main: "if os.path.exists(CHECKPOINT_FILE): os.remove(CHECKPOINT_FILE)"
remove_checkpoint(checkpoint) ==
  IF checkpoint.exists THEN NoCheckpoint ELSE checkpoint

\* the CSV files of the output folder, by league and kind
FileKinds ==
  {"Team_Standings", "Player_Hitting_Leaders", "Pitcher_Leaders", "Team_Hitting_Leaders",
   "Team_Pitching_Leaders", "Team_Hitting_Complete", "Team_Pitching_Complete"}

FileNames == (Range(MINOR_LEAGUES) \cup {LEAGUE_SHORT}) \X FileKinds

NoFiles == [n \in FileNames |-> NoFile]

\* clean_csv_files() of scraper_al.py: every CSV file of the folder is removed
clean_csv_files(files) == [n \in DOMAIN files |-> NoFile]

\* extract_team_leaders: one iteration of the loop over the rows
team_leaders_row(cells, year, league) ==
  IF Len(cells) < 3 THEN <<>>
  ELSE IF Contains(cells[1].cls, tBanner) \/ Contains(cells[1].cls, tHeader) THEN <<>>
  ELSE IF ~Contains(cells[1].cls, tDatacolBlue) THEN <<>>
  ELSE LET statistic == At(cells, 0)
           team == At(cells, 1)
           value == Replace(At(cells, 2), <<",">>, <<>>)
           cols == <<colYear, colLeague, colStatistic, colTeam, colValue>>
       IN IF statistic = <<>> \/ team = <<>> \/ value = <<>> THEN <<>>
          ELSE <<Dict(cols,
                      [c \in Range(cols) |->
                         CASE c = colYear -> Str(year)
                           [] c = colLeague -> Str(league)
                           [] c = colStatistic -> Str(statistic)
                           [] c = colTeam -> Str(team)
                           [] c = colValue -> Str(value)])>>

\* extract_team_leaders(ba_table, year, league, stats_type, log_file)
RECURSIVE extract_team_leaders(_, _, _)
extract_team_leaders(rows, year, league) ==
  IF rows = <<>> THEN <<>>
  ELSE team_leaders_row(Head(rows), year, league)
         \o extract_team_leaders(Tail(rows), year, league)

tPlayerReview == <<"P", "l", "a", "y", "e", "r", " ", "R", "e", "v", "i", "e", "w">>

tPitcherReview == <<"P", "i", "t", "c", "h", "e", "r", " ", "R", "e", "v", "i", "e", "w">>

tTeamStandings == <<"T", "e", "a", "m", " ", "S", "t", "a", "n", "d", "i", "n", "g", "s">>

tTeamReview == <<"T", "e", "a", "m", " ", "R", "e", "v", "i", "e", "w">>

tAmericanLeague == <<"A", "m", "e", "r", "i", "c", "a", "n", " ", "L", "e", "a", "g", "u", "e">>

tPitcher == <<"P", "i", "t", "c", "h", "e", "r">>

\* a table of a page: its title (h2), its subtitle ("" when the table has
\* none), its rows, and whether reading its title raises
Table(title, subtitle, rows, raises) ==
  [title |-> title, subtitle |-> subtitle, rows |-> rows, raises |-> raises]

\* the rows as sequences of cells
CellsOf(rows) == [i \in 1..Len(rows) |-> rows[i].cells]

\* t in ba_table.text: the title, the subtitle or a cell holds it
TableTextHas(table, t) ==
  \/ Contains(table.title, t)
  \/ Contains(table.subtitle, t)
  \/ \E i \in 1..Len(table.rows) : \E j \in 1..Len(table.rows[i].cells) :
       Contains(table.rows[i].cells[j].text, t)

\* num_columns: the cells of the first row with a banner cell, 0 without one
num_columns(table) ==
  LET cells == CellsOf(table.rows)
      banners == BannerRows(cells)
  IN IF banners = {} THEN 0
     ELSE Len(cells[CHOOSE i \in banners : \A j \in banners : i <= j])

\* the extractor and the file a table goes to; NoRoute when no branch is taken
NoRoute == [extractor |-> "none", kind |-> "none", stats_type |-> <<>>]

Route(extractor, kind, stats_type) ==
  [extractor |-> extractor, kind |-> kind, stats_type |-> stats_type]

\* the branches of process_year of scraper_al.py
classify_al(table) ==
  IF Contains(table.title, tPlayerReview)
  THEN Route("extract_player_leaders", "Player_Hitting_Leaders", <<>>)
  ELSE IF Contains(table.title, tPitcherReview)
  THEN Route("extract_player_leaders", "Pitcher_Leaders", <<>>)
  ELSE IF \/ Contains(table.title, tTeamStandings)
          \/ Contains(table.title, tAmericanLeague) /\ TableTextHas(table, tTeamStandings)
  THEN Route("extract_team_standings", "Team_Standings", <<>>)
  ELSE IF Contains(table.title, tTeamReview)
  THEN IF num_columns(table) = 3
       THEN IF Contains(table.subtitle, tHitting)
            THEN Route("extract_team_leaders", "Team_Hitting_Leaders", tHitting)
            ELSE IF Contains(table.subtitle, tPitching)
            THEN Route("extract_team_leaders", "Team_Pitching_Leaders", tPitching)
            ELSE NoRoute
       ELSE IF num_columns(table) > 10
       THEN IF Contains(table.subtitle, tHitting)
            THEN Route("extract_team_stats_complete", "Team_Hitting_Complete", tHitting)
            ELSE IF Contains(table.subtitle, tPitching)
            THEN Route("extract_team_stats_complete", "Team_Pitching_Complete", tPitching)
            ELSE NoRoute
       ELSE NoRoute
  ELSE NoRoute

\* the branches of process_year of scraper_minor.py
classify_minor(table) ==
  IF Contains(table.title, tPlayerReview) \/ Contains(table.title, tPitcherReview)
  THEN LET is_pitching == \/ Contains(table.subtitle, tPitching)
                          \/ Contains(table.subtitle, tPitcher)
                          \/ Contains(table.title, tPitcherReview)
       IN IF is_pitching THEN Route("extract_player_leaders", "Pitcher_Leaders", <<>>)
          ELSE Route("extract_player_leaders", "Player_Hitting_Leaders", <<>>)
  ELSE IF Contains(table.title, tTeamStandings) \/ Contains(table.subtitle, tTeamStandings)
  THEN Route("extract_team_standings", "Team_Standings", <<>>)
  ELSE IF Contains(table.title, tTeamReview)
  THEN IF Contains(table.subtitle, tHitting)
       THEN Route("extract_team_leaders", "Team_Hitting_Leaders", tHitting)
       ELSE IF Contains(table.subtitle, tPitching)
       THEN Route("extract_team_leaders", "Team_Pitching_Leaders", tPitching)
       ELSE NoRoute
  ELSE NoRoute

classify(prog, table) ==
  IF prog = "scraper_al" THEN classify_al(table) ELSE classify_minor(table)

\* the records the extractor of the branch returns
extracted(route, table, year, league) ==
  CASE route.extractor = "extract_player_leaders" ->
         extract_player_leaders(table.rows, year, league)
    [] route.extractor = "extract_team_standings" ->
         extract_team_standings(CellsOf(table.rows), year, league)
    [] route.extractor = "extract_team_leaders" ->
         extract_team_leaders(CellsOf(table.rows), year, league)
    [] route.extractor = "extract_team_stats_complete" ->
         extract_team_stats_complete(CellsOf(table.rows), year, league, route.stats_type)
    [] OTHER -> <<>>

\* one table of process_year: the records of the branch taken are saved to
\* its file
process_table(prog, files, table, year, league) ==
  LET route == classify(prog, table) IN
  IF route = NoRoute THEN files
  ELSE [files EXCEPT ![<<league, route.kind>>] =
          save_to_csv(extracted(route, table, year, league), @, FALSE)]

\* the loop of process_year over the tables: an exception in a table is
\* caught and logged, and the loop goes on with the next table
RECURSIVE process_tables(_, _, _, _, _)
process_tables(prog, files, tables, year, league) ==
  IF tables = <<>> THEN files
  ELSE LET table == Head(tables)
           after == IF table.raises THEN files
                    ELSE process_table(prog, files, table, year, league)
       IN process_tables(prog, after, Tail(tables), year, league)

\* a unit whose failure leaves the records of its tables in the files
process_year_commits(prog, files, page, year, league) ==
  [raised |-> page.fetch_raises,
   files |-> process_tables(prog, files, page.tables, year, league)]

\* process_year(driver, year_url, year, ...): driver.get and find_elements
\* are outside the try of the tables, an exception of theirs leaves the call
process_year(prog, files, page, year, league) ==
  IF page.fetch_raises THEN [raised |-> TRUE, files |-> files]
  ELSE [raised |-> FALSE,
        files |-> process_tables(prog, files, page.tables, year, league)]

(***************************************************************************)
(* State.  Each group of variables is the state of one part of the program *)
(* and each specification below runs one part, the other groups at rest.   *)
(***************************************************************************)
VARIABLES
  st_pc,        \* extract_team_standings: "loop" over the rows or "done"
  st_cells,     \* the cells of the row of the current iteration
  st_division,  \* current_division
  st_data,      \* data, the records appended so far
  cl_pc,        \* the stage of the page-to-cleaned-file run
  cl_rows,      \* the rows of the standings table of the page
  cl_data,      \* the records extracted from them
  cl_file,      \* the CSV file of the scraper's folder
  cl_out,       \* the file clean_csv wrote to the output folder
  cl_out2,      \* the file a second clean_csv wrote from cl_out
  ld_pc,        \* the stage of the leaders page
  ld_rows,      \* the rows of the leaders table of the page
  ld_data,      \* the records extracted from them
  ld_file,      \* the CSV file of the leaders
  ts_pc,        \* the stage of the team statistics page
  ts_table,     \* the rows of the team statistics table of the page
  ts_year,      \* the season of the page
  ts_type,      \* stats_type: "Pitching" or "Hitting"
  ts_data,      \* the records extracted
  ts_file,      \* the CSV file of the team statistics
  run_prog,     \* the program run: "scraper_al" or "scraper_minor"
  run_index,    \* the leagues the index page lists (the keys of leagues_data)
  run_no,       \* the number of the run of main
  run_pc,       \* "main", "loop", "done", or "killed" when the process was stopped
  run_idx,      \* the position of the loop in the list of units
  run_processed,\* processed_years / processed_data
  run_failed,   \* failed_years
  run_ckpt,     \* the checkpoint file
  run_files,    \* the CSV files of the output folder
  run_last,     \* the unit of the last iteration and what became of it
  run_persisted,\* the checkpoint file the previous run left when it was stopped
  run_faults,   \* the number of pages that raised so far
  dp_pc,        \* process_year: "tables" in the loop over the tables, or "done"
  dp_prog,      \* the program whose process_year runs
  dp_table,     \* the table of the current iteration
  dp_n,         \* the number of tables gone through
  dp_files,     \* the CSV files of the output folder
  sk_pc,        \* the caller of save_to_csv: "saving" or "done"
  sk_data,      \* the records of the last call of save_to_csv
  sk_ioerr,     \* whether reading the file raised in the last call
  sk_before,    \* the file before the last call
  sk_file,      \* the file
  sk_log,       \* the levels of the messages the last call logged
  sk_n,         \* the number of calls so far
  lg_pc,        \* extract_player_leaders: "loop" over the rows or "done"
  lg_row,       \* the row of the current iteration
  lg_cur,       \* current_statistic, current_value and current_player
  lg_data,      \* data, the records appended so far
  lg_start,     \* the last group-start row the loop went through
  lg_span,      \* the last group-start row read whose player cell spans rows
  lg_n,         \* the number of rows gone through
  tb_pc,        \* extract_team_standings of a table: "call" or "returned"
  tb_rows,      \* the rows of the table, each with whether reading it raises
  tb_data,      \* the data the call returned
  tb_errors,    \* the number of row errors the call logged
  sq_prog,      \* the steps of the loop of main: the program run
  sq_units,     \* the units of the index page, in the order of the loop
  sq_pc,        \* "next" at the top of the loop, "tables" within process_year, "done"
  sq_idx,       \* the position of the loop in the units
  sq_tables,    \* len(ba_tables) of the page of the unit
  sq_k,         \* the number of tables of the page gone through
  sq_merged,    \* the number of tables of the page saved to their files
  sq_processed, \* processed_years / processed_data
  sq_failed,    \* failed_years
  sq_ckpt,      \* the checkpoint file
  sq_faults     \* the number of fetches that raised so far

st_vars == <<st_pc, st_cells, st_division, st_data>>

cl_vars == <<cl_pc, cl_rows, cl_data, cl_file, cl_out, cl_out2>>

ld_vars == <<ld_pc, ld_rows, ld_data, ld_file>>

ts_vars == <<ts_pc, ts_table, ts_year, ts_type, ts_data, ts_file>>

run_vars ==
  <<run_prog, run_index, run_no, run_pc, run_idx, run_processed, run_failed, run_ckpt, run_files,
    run_last, run_persisted, run_faults>>

dp_vars == <<dp_pc, dp_prog, dp_table, dp_n, dp_files>>

sk_vars == <<sk_pc, sk_data, sk_ioerr, sk_before, sk_file, sk_log, sk_n>>

lg_vars == <<lg_pc, lg_row, lg_cur, lg_data, lg_start, lg_span, lg_n>>

tb_vars == <<tb_pc, tb_rows, tb_data, tb_errors>>

sq_vars ==
  <<sq_prog, sq_units, sq_pc, sq_idx, sq_tables, sq_k, sq_merged, sq_processed, sq_failed, sq_ckpt,
    sq_faults>>

vars == <<st_vars, cl_vars, ld_vars, ts_vars, run_vars, dp_vars, sk_vars, lg_vars, tb_vars, sq_vars>>

(***************************************************************************)
(* The initial state of each part, and its state at rest.                  *)
(***************************************************************************)
st_Init ==
  /\ st_pc = "loop"
  /\ st_cells = <<>>
  /\ st_division = tStandard
  /\ st_data = <<>>

st_Idle ==
  /\ st_pc = "done"
  /\ st_cells = <<>>
  /\ st_division = tStandard
  /\ st_data = <<>>

cl_Init ==
  /\ cl_pc = "scrape"
  /\ cl_rows = <<>>
  /\ cl_data = <<>>
  /\ cl_file = NoFile
  /\ cl_out = NoFile
  /\ cl_out2 = NoFile

cl_Idle ==
  /\ cl_pc = "off"
  /\ cl_rows = <<>>
  /\ cl_data = <<>>
  /\ cl_file = NoFile
  /\ cl_out = NoFile
  /\ cl_out2 = NoFile

ld_Init ==
  /\ ld_pc = "scrape"
  /\ ld_rows = <<>>
  /\ ld_data = <<>>
  /\ ld_file = NoFile

ld_Idle ==
  /\ ld_pc = "off"
  /\ ld_rows = <<>>
  /\ ld_data = <<>>
  /\ ld_file = NoFile

ts_Init ==
  /\ ts_pc = "scrape"
  /\ ts_table = <<>>
  /\ ts_year = <<>>
  /\ ts_type = <<>>
  /\ ts_data = <<>>
  /\ ts_file = NoFile

ts_Idle ==
  /\ ts_pc = "off"
  /\ ts_table = <<>>
  /\ ts_year = <<>>
  /\ ts_type = <<>>
  /\ ts_data = <<>>
  /\ ts_file = NoFile

NoTable == Table(<<>>, <<>>, <<>>, FALSE)

dp_Init ==
  /\ dp_pc = "tables"
  /\ dp_prog \in {"scraper_al", "scraper_minor"}
  /\ dp_table = NoTable
  /\ dp_n = 0
  /\ dp_files = NoFiles

NoRow == [cls |-> <<>>, cells |-> <<>>]

lg_Init ==
  /\ lg_pc = "loop"
  /\ lg_row = NoRow
  /\ lg_cur = NoGroup
  /\ lg_data = <<>>
  /\ lg_start = NoRow
  /\ lg_span = NoRow
  /\ lg_n = 0

lg_Idle ==
  /\ lg_pc = "off"
  /\ lg_row = NoRow
  /\ lg_cur = NoGroup
  /\ lg_data = <<>>
  /\ lg_start = NoRow
  /\ lg_span = NoRow
  /\ lg_n = 0

sq_Idle ==
  /\ sq_prog = "off"
  /\ sq_units = <<>>
  /\ sq_pc = "off"
  /\ sq_idx = 1
  /\ sq_tables = 0
  /\ sq_k = 0
  /\ sq_merged = 0
  /\ sq_processed = {}
  /\ sq_failed = {}
  /\ sq_ckpt = NoCheckpoint
  /\ sq_faults = 0

tb_Init ==
  /\ tb_pc = "call"
  /\ tb_rows = <<>>
  /\ tb_data = <<>>
  /\ tb_errors = 0

tb_Idle ==
  /\ tb_pc = "off"
  /\ tb_rows = <<>>
  /\ tb_data = <<>>
  /\ tb_errors = 0

sk_Init ==
  /\ sk_pc = "saving"
  /\ sk_data = <<>>
  /\ sk_ioerr = FALSE
  /\ sk_before = NoFile
  /\ sk_file = NoFile
  /\ sk_log = <<>>
  /\ sk_n = 0

sk_Idle ==
  /\ sk_pc = "off"
  /\ sk_data = <<>>
  /\ sk_ioerr = FALSE
  /\ sk_before = NoFile
  /\ sk_file = NoFile
  /\ sk_log = <<>>
  /\ sk_n = 0

dp_Idle ==
  /\ dp_pc = "off"
  /\ dp_prog = "off"
  /\ dp_table = NoTable
  /\ dp_n = 0
  /\ dp_files = NoFiles

NoLast == [unit |-> Unit(<<>>, <<>>), outcome |-> "none"]

run_Init ==
  /\ \/ run_prog = "scraper_al" /\ run_index = {LEAGUE_SHORT}
     \/ run_prog = "scraper_minor" /\ run_index \in {{tFL, tPL}, {tPL}}
  /\ run_no = 1
  /\ run_pc = "main"
  /\ run_idx = 1
  /\ run_processed = {}
  /\ run_failed = {}
  /\ run_ckpt = NoCheckpoint
  /\ run_files = NoFiles
  /\ run_last = NoLast
  /\ run_persisted = NoCheckpoint
  /\ run_faults = 0

run_Idle ==
  /\ run_prog = "off"
  /\ run_index = {}
  /\ run_no = 1
  /\ run_pc = "off"
  /\ run_idx = 1
  /\ run_processed = {}
  /\ run_failed = {}
  /\ run_ckpt = NoCheckpoint
  /\ run_files = NoFiles
  /\ run_last = NoLast
  /\ run_persisted = NoCheckpoint
  /\ run_faults = 0

(***************************************************************************)
(* The standings rows the model reads: a team row is the team cell, an     *)
(* optional split-season cell and the statistic cells.                     *)
(***************************************************************************)
MaxRows == 2

tAL == <<"A", "L">>

\* the statistic cells after the team (and split) cell, of every length the
\* thresholds of the extractor tell apart
StandingsTails ==
  { <<<<"9", "5">>, <<"6", "7">>>>,
    <<<<"9", "5">>, <<"6", "7">>, <<"0", ".", "5", "8", "6">>>>,
    <<<<"9", "5">>, <<"6", "7">>, <<"0", ".", "5", "8", "6">>, <<"-", "-">>>>,
    <<<<"9", "5">>, <<"6", "7">>, <<".", "5", "8", "6">>, <<"2", cACirc, cHalf>>>>,
    <<<<"9", "5">>, <<"6", "7">>, <<"0", ".", "5", "8", "6">>, <<"3">>, <<"$", "1", ",", "0">>>>,
    <<<<"9", "5">>, <<"6", "7">>, <<"2">>, <<"0", ".", "5", "8", "6">>, <<"-", "-">>, <<"$", "1", ",", "0">>>>,
    <<<<"9", "5">>, <<"6", "7">>, <<"0", ".", "5", "8", "6">>, <<"1", ",", "5">>, <<"$", "1", ",", "0">>, <<"x">>>>,
    <<<<"9", "5">>, <<"6", "7">>, <<"0", ".", "5", "8", "6">>, <<"2">>, <<"$", "9">>, <<>>>>,
    <<<<"9", "5">>, <<"6", "7">>, <<"1">>, <<"0", ".", "5", "8", "6">>, <<"-", "-">>, <<"$", "9">>, <<"x">>>>,
    <<<<"9", "5">>, <<"6", "7">>, <<"0">>, <<"0", ".", "5", "8", "6">>, <<"3">>, <<"$", "9">>>>,
    <<<<"9", "5">>, <<"6", "7">>, <<"x">>, <<"0", ".", "5", "8", "6">>, <<"3">>, <<"$", "9">>>> }

\* the tails a "Final" row is given: one of every length at least
FinalTails == {t \in StandingsTails : Len(t) # 6 \/ t[3] = <<"2">>}

TextCells(ts) == [i \in 1..Len(ts) |-> TextCell(ts[i])]

TeamCell(name) == Cell(name, <<>>, Link(name), <<>>)

PartialMarkers == {tFirstHalf, tSecondHalf, tSplitA, tSplitB}

\* team rows: without a split-season cell, with a "Final" cell, and with a
\* cell of a partial season
TeamRows(name) ==
  {<<TeamCell(name)>> \o TextCells(t) : t \in StandingsTails}
    \cup {<<TeamCell(name), TextCell(tFinal)>> \o TextCells(t) : t \in FinalTails}
    \cup {<<TeamCell(name), TextCell(m)>> \o TextCells(<<<<"9", "5">>, <<"6", "7">>, <<"0", ".", "5", "8", "6">>, <<"-", "-">>>>) :
            m \in PartialMarkers}

\* division headers (rowspan 4 and 1), a first cell with a rowspan and
\* another text, a division name without a rowspan, a banner row, a row
\* without a link, an All-Star row and a row without cells
OtherRows ==
  { <<Cell(tEast, <<>>, NoLink, <<"4">>), TeamCell(<<"Y">>)>>
      \o TextCells(<<<<"9", "5">>, <<"6", "7">>, <<"0", ".", "5", "8", "6">>, <<"-", "-">>>>),
    <<Cell(tCentral, <<>>, NoLink, <<"1">>), TeamCell(<<"Y">>)>>
      \o TextCells(<<<<"9", "5">>, <<"6", "7">>, <<"0", ".", "5", "8", "6">>, <<"-", "-">>>>),
    <<Cell(<<"N", "o", "r", "t", "h">>, <<>>, NoLink, <<"3">>), TeamCell(<<"Y">>)>>
      \o TextCells(<<<<"9", "5">>, <<"6", "7">>, <<"0", ".", "5", "8", "6">>, <<"-", "-">>>>),
    <<Cell(tEast, <<>>, NoLink, <<>>), TeamCell(<<"Y">>)>>
      \o TextCells(<<<<"9", "5">>, <<"6", "7">>, <<"0", ".", "5", "8", "6">>, <<"-", "-">>>>),
    <<Cell(<<"T", "e", "a", "m", " ", "|", " ", "W", " ", "|", " ", "L">>, tBanner, NoLink, <<>>)>>,
    <<TextCell(<<"Y">>)>> \o TextCells(<<<<"9", "5">>, <<"6", "7">>, <<"0", ".", "5", "8", "6">>, <<"-", "-">>>>),
    <<TeamCell(tAllStar)>> \o TextCells(<<<<"9", "5">>, <<"6", "7">>, <<"0", ".", "5", "8", "6">>, <<"-", "-">>>>),
    <<TeamCell(<<"1", "9", "8", "1", " ">> \o tWorldSeries)>>
      \o TextCells(<<<<"9", "5">>, <<"6", "7">>, <<"0", ".", "5", "8", "6">>, <<"-", "-">>>>),
    <<>> }

StandingsRows == TeamRows(<<"Y">>) \cup OtherRows

(***************************************************************************)
(* extract_team_standings as a loop: one action per iteration.             *)
(***************************************************************************)
\* one iteration of "for row in rows"
StandingsRow ==
  /\ st_pc = "loop"
  /\ Len(st_data) < MaxRows
  /\ \E cells \in StandingsRows :
       LET r == standings_row(cells, st_division, <<"1", "9", "8", "1">>, tAL) IN
       /\ st_cells' = cells
       /\ st_division' = r.division
       /\ st_data' = st_data \o r.emit
  /\ UNCHANGED st_pc

\* the rows are exhausted: return data
StandingsReturn ==
  /\ st_pc = "loop"
  /\ st_pc' = "done"
  /\ UNCHANGED <<st_cells, st_division, st_data>>

(***************************************************************************)
(* The standings of one page from the table to the cleaned file: the       *)
(* extraction and the save of process_year, then clean_csv, then clean_csv *)
(* over the file it wrote.                                                 *)
(***************************************************************************)
MaxTableRows == 2

\* the games-behind cells of the rows
CleanGBs ==
  {<<"-", "-">>, <<"3">>, <<"2", cACirc, cHalf>>, <<"2", cATilde, cLowQuote, cACirc, cHalf>>, <<"2", cHalf>>, <<"2", cATilde, cFHook, caCirc, cEuro, cSCaron, cATilde, cLowQuote, cACirc, cHalf>>, <<"1", ",", "5">>}

CleanRows ==
  {<<TeamCell(name)>> \o TextCells(<<<<"9", "5">>, <<"6", "7">>, <<".", "5", "8", "6">>, gb>>) :
     name \in {<<"Y">>, <<"Y", "*">>}, gb \in CleanGBs}
   \cup {<<TeamCell(<<"Z">>)>> \o TextCells(<<<<"9", "?">>, <<"6">>, <<"1">>, <<"0", ".", "6">>, <<"-", "-">>, <<"$", "1", ",", "0">>>>)}

\* the tables of at most n rows
RECURSIVE TablesUpTo(_, _)
TablesUpTo(rowset, n) ==
  IF n = 0 THEN {<<>>}
  ELSE LET shorter == TablesUpTo(rowset, n - 1) IN
       shorter \cup {Append(t, r) : t \in {s \in shorter : Len(s) = n - 1}, r \in rowset}

\* process_year for a standings table: extract the records and save them
ScrapeStandings ==
  /\ cl_pc = "scrape"
  /\ \E rows \in TablesUpTo(CleanRows, MaxTableRows) :
       LET data == extract_team_standings(rows, <<"1", "9", "8", "1">>, tAL) IN
       /\ cl_rows' = rows
       /\ cl_data' = data
       /\ cl_file' = save_to_csv(data, cl_file, FALSE)
  /\ cl_pc' = "clean"
  /\ UNCHANGED <<cl_out, cl_out2>>

\* clean_csv of the scraped file into the output folder; an exception
\* (the file cannot be read) leaves the output folder as it was
CleanFile ==
  /\ cl_pc = "clean"
  /\ cl_out' = IF ~cl_file.exists \/ ReadRaises(cl_file) THEN cl_out ELSE clean_csv(cl_file)
  /\ cl_pc' = "reclean"
  /\ UNCHANGED <<cl_rows, cl_data, cl_file, cl_out2>>

\* clean_csv of the cleaned file
CleanAgain ==
  /\ cl_pc = "reclean"
  /\ cl_out2' = IF ~cl_out.exists \/ ReadRaises(cl_out) THEN cl_out2 ELSE clean_csv(cl_out)
  /\ cl_pc' = "done"
  /\ UNCHANGED <<cl_rows, cl_data, cl_file, cl_out>>

(***************************************************************************)
(* A page of leaders from the table to the file: the extraction and the    *)
(* save of process_year, and the same page scraped and saved again.        *)
(***************************************************************************)
MaxLeaderRows == 2

\* a group-start row: statistic, player (with its rowspan), team, value and
\* one more cell
StartRow(cls, statistic, player, rowspan, value) ==
  Row(<<>>, <<Cell(statistic, cls, NoLink, <<>>), Cell(player, <<>>, NoLink, rowspan),
             TextCell(<<"T">>), TextCell(value), TextCell(<<>>)>>)

LeaderRows ==
  { StartRow(tDatacolBlue, <<"H", "R">>, <<"P">>, <<"2">>, <<"4", "0">>),
    StartRow(tDatacolBlue, <<"H", "R">>, <<"P", "*">>, <<"2">>, <<"4", "0">>),
    StartRow(tDatacolBlue, <<"H", "R">>, <<"*">>, <<"2">>, <<"4", "0">>),
    StartRow(tDatacolBlue, <<>>, <<"P">>, <<"2">>, <<"4", "0">>),
    StartRow(tDatacolBlue, <<"H", "R">>, <<"P">>, <<>>, <<"4", "0">>),
    StartRow(tDatacolBlue, <<"H", "R">>, <<"P">>, <<"x">>, <<"4", "0">>),
    StartRow(tDatacolBlue, <<"H", "R">>, <<"P">>, <<"2">>, <<>>),
    StartRow(tDatacolBlue, <<"R", "B", "I">>, <<"Q">>, <<"1">>, <<"9", "9">>),
    StartRow(tDatacolBlue, <<"S", "B">>, <<"R">>, <<"3">>, <<"7", "0">>),
    StartRow(<<"d", "a", "t", "a", "c", "o", "l", "B", "l", "u", "e", " ", "g", "r", "e", "y">>, <<"H", "R">>, <<"P">>, <<"2">>, <<"4", "0">>),
    Row(<<>>, <<TextCell(<<"V">>)>>),
    Row(<<>>, <<Cell(<<"V">>, tGrey, NoLink, <<>>)>>),
    Row(tGrey, <<TextCell(<<"V">>)>>),
    Row(<<>>, <<TextCell(<<>>)>>),
    Row(<<>>, <<TextCell(<<"Q", "*">>), TextCell(<<"U">>)>>),
    Row(<<>>, <<TextCell(<<"*", "P">>), TextCell(<<"T">>), TextCell(<<"3", "9">>)>>),
    Row(<<>>, <<TextCell(<<"P">>), TextCell(<<"T">>), TextCell(<<"3", "9">>), TextCell(<<"x">>)>>),
    Row(<<>>, <<TextCell(<<"H", "R">>), TextCell(<<"P">>), TextCell(<<"T">>), TextCell(<<"3", "9">>), TextCell(<<>>)>>),
    Row(<<>>, <<Cell(<<"Q">>, tHeader, NoLink, <<>>), TextCell(<<"U">>)>>),
    Row(<<>>, <<Cell(<<"S", "t", "a", "t", "i", "s", "t", "i", "c">>, tBanner, NoLink, <<>>)>>),
    Row(<<>>, <<>>) }

\* process_year for a leaders table: extract the records and save them
ScrapeLeaders ==
  /\ ld_pc = "scrape"
  /\ \E rows \in TablesUpTo(LeaderRows, MaxLeaderRows) :
       LET data == extract_player_leaders(rows, <<"1", "9", "8", "1">>, tAL) IN
       /\ ld_rows' = rows
       /\ ld_data' = data
       /\ ld_file' = save_to_csv(data, ld_file, FALSE)
  /\ ld_pc' = "saved"

\* the same page is processed again: the same records are extracted and
\* merged into the file
ScrapeLeadersAgain ==
  /\ ld_pc = "saved"
  /\ ld_data' = extract_player_leaders(ld_rows, <<"1", "9", "8", "1">>, tAL)
  /\ ld_file' = save_to_csv(ld_data', ld_file, FALSE)
  /\ ld_pc' = "merged"
  /\ UNCHANGED ld_rows

(***************************************************************************)
(* A page's team statistics table from the table to the file.              *)
(***************************************************************************)
MaxStatRows == 1

BannerCells(ts) == [i \in 1..Len(ts) |-> Cell(ts[i], tBanner, NoLink, <<>>)]

\* header rows: the labels of 2003 (no SVO), the labels of 2002 (H, SH,
\* Team), a reordered header without SVO and HBP, a header with an empty
\* cell, a header with a label twice
StatHeaders ==
  { BannerCells(<<<<"T", "E", "A", "M">>, <<"W">>, <<"L">>, <<"E", "R", "A">>, <<"G">>, <<"C", "G">>, <<"S", "H", "O">>, <<"S", "V">>, <<"I", "P">>, <<"H", "A">>, <<"R">>,
                  <<"E", "R">>, <<"H", "R">>, <<"H", "B", "P">>, <<"B", "B">>, <<"S", "O">>>>),
    BannerCells(<<<<"T", "e", "a", "m">>, <<"W">>, <<"L">>, <<"E", "R", "A">>, <<"G">>, <<"C", "G">>, <<"S", "H">>, <<"S", "V">>, <<"S", "V", "O">>, <<"I", "P">>, <<"H">>,
                  <<"R">>, <<"E", "R">>, <<"H", "R">>, <<"H", "B", "P">>, <<"B", "B">>, <<"S", "O">>>>),
    BannerCells(<<<<"T", "E", "A", "M">>, <<"E", "R", "A">>, <<"W">>, <<"L">>, <<"G">>, <<"C", "G">>, <<"S", "H", "O">>, <<"S", "V">>, <<"I", "P">>, <<"H", "A">>, <<"R">>,
                  <<"E", "R">>, <<"H", "R">>, <<"B", "B">>, <<"S", "O">>>>),
    BannerCells(<<<<"T", "E", "A", "M">>, <<"W">>, <<>>, <<"L">>, <<"E", "R", "A">>, <<>>>>),
    BannerCells(<<<<"T", "E", "A", "M">>, <<"W">>, <<"W">>, <<"L">>>>) }

StatTexts ==
  <<<<"1", "0">>, <<"1", "1">>, <<"1", "2">>, <<"1", "3">>, <<"1", "4">>, <<"1", "5">>, <<"1", "6">>, <<"1", "7">>, <<"1", "8">>, <<"1", ",", "2", "3", "4">>, <<"2", "0">>, <<"2", "1">>, <<"2", "2">>,
    <<"2", "3">>, <<"2", "4">>, <<"2", "5">>>>

\* data rows: a team with a link, a team without, a short row, a row of two
\* cells, an All-Star row, a row with an empty team cell
StatRows ==
  { <<TeamCell(<<"Y">>)>> \o TextCells(StatTexts),
    <<TextCell(<<"Z">>)>> \o TextCells(StatTexts),
    <<TeamCell(<<"Y">>)>> \o TextCells(<<<<"1", "0">>, <<"1", "1">>, <<"1", "2">>>>),
    <<TeamCell(<<"Y">>)>> \o TextCells(<<<<"1", "0">>>>),
    <<TeamCell(tAllStar)>> \o TextCells(StatTexts),
    <<TextCell(<<>>)>> \o TextCells(StatTexts) }

\* the tables: no header row, or a header row and data rows
StatTables ==
  {<<h>> \o rows : h \in StatHeaders, rows \in TablesUpTo(StatRows, MaxStatRows)}
    \cup {<<r>> : r \in StatRows}

\* process_year for a wide team statistics table: extract and save
ScrapeTeamStats ==
  /\ ts_pc = "scrape"
  /\ \E table \in StatTables, year \in {<<"2", "0", "0", "1">>, <<"2", "0", "0", "2">>, <<"2", "0", "0", "3">>},
        stats_type \in {tPitching, tHitting} :
       LET data == extract_team_stats_complete(table, year, tAL, stats_type) IN
       /\ ts_table' = table
       /\ ts_year' = year
       /\ ts_type' = stats_type
       /\ ts_data' = data
       /\ ts_file' = save_to_csv(data, ts_file, FALSE)
  /\ ts_pc' = "saved"

(***************************************************************************)
(* The runs of main: the seasons of the index page, the pages, and one    *)
(* action per step of main.                                                *)
(***************************************************************************)
NumUnits == 11

MaxRuns == 2

MaxFaults == 1

CheckpointEvery == 10

\* leagues_data[LEAGUE_KEY] of the index page: years as the texts of the cells
al_years == [i \in 1..NumUnits |-> Unit(LEAGUE_SHORT, NatToDigits(1900 + i))]

\* leagues_data[league_key]: the years the index page lists for a minor
\* league; a league the page lacks is passed over ("continue")
minor_years(league) ==
  IF league \notin run_index THEN <<>>
  ELSE IF league = tFL THEN <<Unit(tFL, <<"1", "9", "1", "4">>), Unit(tFL, <<"1", "9", "1", "5">>)>>
  ELSE IF league = tPL THEN <<Unit(tPL, <<"1", "8", "9", "0">>)>>
  ELSE <<>>

RECURSIVE minor_units(_)
minor_units(leagues) ==
  IF leagues = <<>> THEN <<>>
  ELSE minor_years(Head(leagues)) \o minor_units(Tail(leagues))

\* the units in the order main goes through them
RunUnits(prog) == IF prog = "scraper_al" THEN al_years ELSE minor_units(MINOR_LEAGUES)

\* the standings table of a page; raises is an exception within the table
StandingsTable(raises) ==
  Table(tTeamStandings, <<>>,
        <<Row(<<>>, <<TeamCell(<<"Y">>)>>
                      \o TextCells(<<<<"9", "5">>, <<"6", "7">>, <<"0", ".", "5", "8", "6">>, <<"-", "-">>>>))>>,
        raises)

OkPage == [fetch_raises |-> FALSE, tables |-> <<StandingsTable(FALSE)>>]

\* a page read well, one with a table that raises, one whose fetch raises
RunPages ==
  {OkPage,
   [fetch_raises |-> FALSE, tables |-> <<StandingsTable(TRUE)>>],
   [fetch_raises |-> TRUE, tables |-> <<StandingsTable(FALSE)>>]}

\* main up to the loop: clean_csv_files (scraper_al.py), the removal of the
\* checkpoint file, load_checkpoint
RunStart ==
  /\ run_pc = "main"
  /\ LET removed == remove_checkpoint(run_ckpt) IN
       /\ run_ckpt' = removed
       /\ run_processed' = IF run_prog = "scraper_al" THEN load_checkpoint(removed)
                           ELSE load_checkpoint_multi(removed)
  /\ run_files' = IF run_prog = "scraper_al" THEN clean_csv_files(run_files) ELSE run_files
  /\ run_failed' = {}
  /\ run_idx' = 1
  /\ run_pc' = "loop"
  /\ UNCHANGED <<run_prog, run_index, run_no, run_last, run_persisted, run_faults>>

\* one iteration of the loop over the years
RunUnit ==
  /\ run_pc = "loop"
  /\ run_idx <= Len(RunUnits(run_prog))
  /\ \E page \in RunPages :
       LET unit == RunUnits(run_prog)[run_idx]
           r == process_year(run_prog, run_files, page, unit.year, unit.league)
           added == run_processed \cup {unit}
       IN
       /\ page # OkPage => run_faults < MaxFaults
       /\ IF unit \in run_processed
          THEN /\ page = OkPage
               /\ run_last' = [unit |-> unit, outcome |-> "skipped"]
               /\ UNCHANGED <<run_processed, run_failed, run_ckpt, run_files, run_faults>>
          ELSE /\ run_faults' = IF page # OkPage THEN run_faults + 1 ELSE run_faults
               /\ IF r.raised
                  THEN /\ run_last' = [unit |-> unit, outcome |-> "failed"]
                       /\ run_failed' = run_failed \cup {unit}
                       /\ run_files' = r.files
                       /\ UNCHANGED <<run_processed, run_ckpt>>
                  ELSE /\ run_last' = [unit |-> unit, outcome |-> "processed"]
                       /\ run_files' = r.files
                       /\ run_processed' = added
                       /\ run_ckpt' =
                            IF run_prog = "scraper_al"
                            THEN IF Cardinality(added) % CheckpointEvery = 0
                                 THEN save_checkpoint(added) ELSE run_ckpt
                            ELSE save_checkpoint_multi(added)
                       /\ UNCHANGED run_failed
  /\ run_idx' = run_idx + 1
  /\ UNCHANGED <<run_prog, run_index, run_no, run_pc, run_persisted>>

\* the loop is over: the final checkpoint of scraper_al.py, the summary
RunFinish ==
  /\ run_pc = "loop"
  /\ run_idx > Len(RunUnits(run_prog))
  /\ run_ckpt' = IF run_prog = "scraper_al" THEN save_checkpoint(run_processed) ELSE run_ckpt
  /\ run_pc' = "done"
  /\ UNCHANGED <<run_prog, run_index, run_no, run_idx, run_processed, run_failed, run_files,
                 run_last, run_persisted, run_faults>>

\* the process is stopped between two iterations
RunKill ==
  /\ run_pc = "loop"
  /\ run_pc' = "killed"
  /\ UNCHANGED <<run_prog, run_index, run_no, run_idx, run_processed, run_failed, run_ckpt,
                 run_files, run_last, run_persisted, run_faults>>

\* the program is started again: the files stay, the memory is new
RunAgain ==
  /\ run_pc \in {"killed", "done"}
  /\ run_no < MaxRuns
  /\ run_no' = run_no + 1
  /\ run_pc' = "main"
  /\ run_idx' = 1
  /\ run_processed' = {}
  /\ run_failed' = {}
  /\ run_last' = NoLast
  /\ run_persisted' = IF run_pc = "killed" THEN run_ckpt ELSE NoCheckpoint
  /\ UNCHANGED <<run_prog, run_index, run_ckpt, run_files, run_faults>>

(***************************************************************************)
(* process_year over the tables of a page: the titles, subtitles and rows  *)
(* the model reads, and one action per iteration.                          *)
(***************************************************************************)
MaxPageTables == 1

PageTitles ==
  {tPlayerReview, tPitcherReview, tTeamStandings, tTeamReview, tAmericanLeague,
   <<"A", "t", "t", "e", "n", "d", "a", "n", "c", "e">>}

PageSubtitles == {<<>>, tPitching, tHitting, tPitcher, tTeamStandings}

\* the rows of a table: a leader row, a team row of standings, a header of
\* three cells over a leader row, a header of eleven cells over a team row,
\* and a cell that holds the words of the standings title
PageRows ==
  { <<StartRow(tDatacolBlue, <<"H", "R">>, <<"P">>, <<>>, <<"4", "0">>)>>,
    <<Row(<<>>, <<TeamCell(<<"Y">>)>>
                  \o TextCells(<<<<"9", "5">>, <<"6", "7">>, <<"0", ".", "5", "8", "6">>, <<"-", "-">>>>))>>,
    <<Row(<<>>, BannerCells(<<<<"S">>, <<"T">>, <<"V">>>>)),
      StartRow(tDatacolBlue, <<"H", "R">>, <<"P">>, <<>>, <<"4", "0">>)>>,
    <<Row(<<>>, BannerCells(<<<<"T", "E", "A", "M">>, <<"W">>, <<"L">>, <<"E", "R", "A">>, <<"G">>, <<"C", "G">>,
                              <<"S", "H", "O">>, <<"S", "V">>, <<"I", "P">>, <<"H", "A">>, <<"R">>>>)),
      Row(<<>>, <<TeamCell(<<"Y">>)>> \o TextCells(StatTexts))>>,
    <<Row(<<>>, <<TextCell(tTeamStandings)>>)>> }

PageTables ==
  {Table(title, subtitle, rows, FALSE) :
     title \in PageTitles, subtitle \in PageSubtitles, rows \in PageRows}
    \cup {Table(tTeamStandings, <<>>, <<>>, TRUE)}

\* the league process_year saves for
PageLeague(prog) == IF prog = "scraper_al" THEN LEAGUE_SHORT ELSE tFL

\* one iteration of the loop over the tables of the page
DispatchTable ==
  /\ dp_pc = "tables"
  /\ dp_n < MaxPageTables
  /\ \E table \in PageTables :
       /\ dp_table' = table
       /\ dp_files' = process_tables(dp_prog, dp_files, <<table>>,
                                     <<"1", "9", "8", "1">>, PageLeague(dp_prog))
  /\ dp_n' = dp_n + 1
  /\ UNCHANGED <<dp_pc, dp_prog>>

\* the tables are exhausted
DispatchReturn ==
  /\ dp_pc = "tables"
  /\ dp_pc' = "done"
  /\ UNCHANGED <<dp_prog, dp_table, dp_n, dp_files>>

(***************************************************************************)
(* The calls of save_to_csv on one file: process_year saves the records of *)
(* a table, the next page saves to the same file.                          *)
(***************************************************************************)
MaxSaves == 2

\* a record of extract_player_leaders
LeaderRecord(year, player, value) ==
  Dict(LeaderCols,
       (colYear :> Str(year)) @@ (colLeague :> Str(tAL))
         @@ (colStatistic :> Str(<<"H", "R">>)) @@ (colPlayerName :> Str(player))
         @@ (colTeam :> Str(<<"T">>)) @@ (colValue :> Str(value)))

\* records with the key columns, and records that have none of them
KeyedRecords ==
  { LeaderRecord(<<"1", "9", "8", "1">>, <<"P">>, <<"4", "0">>),
    LeaderRecord(<<"1", "9", "8", "1">>, <<"P">>, <<"4", "1">>),
    LeaderRecord(<<"1", "9", "8", "1">>, <<"Q">>, <<"4", "0">>) }

KeylessRecords ==
  {Dict(<<colValue>>, (colValue :> Str(value))) : value \in {<<"4", "0">>, <<"x">>}}

\* the batches: no record, one record, or two records of a kind
SinkBatches ==
  {<<>>}
    \cup {<<a>> : a \in KeyedRecords \cup KeylessRecords}
    \cup {<<a, b>> : a, b \in KeyedRecords}
    \cup {<<a, b>> : a, b \in KeylessRecords}

\* one call of save_to_csv
SinkSave ==
  /\ sk_pc = "saving"
  /\ sk_n < MaxSaves
  /\ \E data \in SinkBatches, ioerr \in (IF sk_file.exists THEN BOOLEAN ELSE {FALSE}) :
       /\ sk_data' = data
       /\ sk_ioerr' = ioerr
       /\ sk_file' = save_to_csv(data, sk_file, ioerr)
       /\ sk_log' = save_to_csv_log(data, sk_file, ioerr)
  /\ sk_before' = sk_file
  /\ sk_n' = sk_n + 1
  /\ UNCHANGED sk_pc

\* the caller is done with the file
SinkReturn ==
  /\ sk_pc = "saving"
  /\ sk_pc' = "done"
  /\ UNCHANGED <<sk_data, sk_ioerr, sk_before, sk_file, sk_log, sk_n>>

(***************************************************************************)
(* extract_player_leaders as a loop: one action per iteration.             *)
(***************************************************************************)
MaxLeaderSteps == 3

\* a row of at least five cells whose first cell is tagged as the column of
\* the statistic
IsStartRow(row) ==
  Len(row.cells) >= 5 /\ Contains(row.cells[1].cls, tDatacolBlue)

\* a group-start row the loop reads (not tagged grey, banner or header)
\* whose player cell has a rowspan of more than 1
SpanStartRow(row) ==
  /\ IsStartRow(row)
  /\ ~Contains(row.cls, tGrey)
  /\ \A tag \in {tGrey, tBanner, tHeader} : ~Contains(row.cells[1].cls, tag)
  /\ IntOk(row.cells[2].rowspan)
  /\ ParseNum(Strip(row.cells[2].rowspan)).m > 1

\* one iteration of "for row in rows"
LeadersRow ==
  /\ lg_pc = "loop"
  /\ lg_n < MaxLeaderSteps
  /\ \E row \in LeaderRows :
       LET r == leaders_row(row, lg_cur, <<"1", "9", "8", "1">>, tAL) IN
       /\ lg_row' = row
       /\ lg_cur' = r.cur
       /\ lg_data' = lg_data \o r.emit
       /\ lg_start' = IF IsStartRow(row) THEN row ELSE lg_start
       /\ lg_span' = IF SpanStartRow(row) THEN row ELSE lg_span
  /\ lg_n' = lg_n + 1
  /\ UNCHANGED lg_pc

\* the rows are exhausted: return data
LeadersReturn ==
  /\ lg_pc = "loop"
  /\ lg_pc' = "done"
  /\ UNCHANGED <<lg_row, lg_cur, lg_data, lg_start, lg_span, lg_n>>

(***************************************************************************)
(* extract_team_standings over a table some of whose rows raise.           *)
(***************************************************************************)
MaxFaultRows == 3

FaultRow(cells, raises) == [cells |-> cells, raises |-> raises]

\* division headers, team rows, a row without a link; each read well or
\* raising
FaultRows ==
  {FaultRow(cells, raises) :
     cells \in { <<Cell(tEast, <<>>, NoLink, <<"4">>), TeamCell(<<"Y">>)>>
                   \o TextCells(<<<<"9", "5">>, <<"6", "7">>, <<"0", ".", "5", "8", "6">>, <<"-", "-">>>>),
                 <<Cell(tWest, <<>>, NoLink, <<"2">>), TeamCell(<<"Y">>)>>
                   \o TextCells(<<<<"9", "5">>, <<"6", "7">>, <<"0", ".", "5", "8", "6">>, <<"-", "-">>>>),
                 <<TeamCell(<<"Y">>)>>
                   \o TextCells(<<<<"9", "5">>, <<"6", "7">>, <<"0", ".", "5", "8", "6">>, <<"-", "-">>>>),
                 <<TeamCell(<<"Z">>)>>
                   \o TextCells(<<<<"9", "0">>, <<"7", "2">>, <<"0", ".", "5", "5", "6">>, <<"5">>>>),
                 <<TextCell(<<"Y">>)>>
                   \o TextCells(<<<<"9", "5">>, <<"6", "7">>, <<"0", ".", "5", "8", "6">>, <<"-", "-">>>>) },
     raises \in BOOLEAN}

\* the call of extract_team_standings on a table
ExtractStandings ==
  /\ tb_pc = "call"
  /\ \E frows \in TablesUpTo(FaultRows, MaxFaultRows) :
       LET r == standings_loop_try(frows, tStandard, <<>>, 0, <<"1", "9", "8", "1">>, tAL) IN
       /\ tb_rows' = frows
       /\ tb_data' = r.data
       /\ tb_errors' = r.errors
  /\ tb_pc' = "returned"

(***************************************************************************)
(* The loop of main step by step: the fetch of the page of a unit, the     *)
(* tables of the page one after the other, the unit recorded.  The run     *)
(* starts after the removal of the checkpoint file, with nothing processed.*)
(***************************************************************************)
MaxUnitTables == 2

MaxUnitFaults == 2

\* the loop begins: the index page lists the seasons of the league, here
\* also a page that lists a season twice
sq_Init ==
  /\ \/ sq_prog = "scraper_al" /\ sq_units = al_years
     \/ /\ sq_prog = "scraper_minor"
        /\ sq_units \in {<<Unit(tFL, <<"1", "9", "1", "4">>), Unit(tFL, <<"1", "9", "1", "5">>),
                            Unit(tPL, <<"1", "8", "9", "0">>)>>,
                          <<Unit(tPL, <<"1", "8", "9", "0">>), Unit(tPL, <<"1", "8", "9", "0">>)>>}
  /\ sq_pc = "next"
  /\ sq_idx = 1
  /\ sq_tables = 0
  /\ sq_k = 0
  /\ sq_merged = 0
  /\ sq_processed = {}
  /\ sq_failed = {}
  /\ sq_ckpt = NoCheckpoint
  /\ sq_faults = 0

\* "if year in processed_years: continue"
UnitSkip ==
  /\ sq_pc = "next"
  /\ sq_idx <= Len(sq_units)
  /\ sq_units[sq_idx] \in sq_processed
  /\ sq_idx' = sq_idx + 1
  /\ UNCHANGED <<sq_prog, sq_units, sq_pc, sq_tables, sq_k, sq_merged, sq_processed, sq_failed,
                 sq_ckpt, sq_faults>>

\* a fetch whose exception leaves the unit both failed and processed
UnitFetchMarks ==
  /\ sq_pc = "next"
  /\ sq_idx <= Len(sq_units)
  /\ sq_units[sq_idx] \notin sq_processed
  /\ \/ /\ sq_faults < MaxUnitFaults
        /\ sq_faults' = sq_faults + 1
        /\ sq_failed' = sq_failed \cup {sq_units[sq_idx]}
        /\ sq_processed' = sq_processed \cup {sq_units[sq_idx]}
        /\ sq_idx' = sq_idx + 1
        /\ UNCHANGED <<sq_pc, sq_tables, sq_k, sq_merged>>
     \/ /\ \E n \in 0..MaxUnitTables : sq_tables' = n
        /\ sq_k' = 0
        /\ sq_merged' = 0
        /\ sq_pc' = "tables"
        /\ UNCHANGED <<sq_idx, sq_failed, sq_faults, sq_processed>>
  /\ UNCHANGED <<sq_prog, sq_units, sq_ckpt>>

\* process_year up to the loop over the tables: driver.get and
\* find_elements; an exception leaves process_year and main appends the
\* unit to failed_years
UnitFetch ==
  /\ sq_pc = "next"
  /\ sq_idx <= Len(sq_units)
  /\ sq_units[sq_idx] \notin sq_processed
  /\ \/ /\ sq_faults < MaxUnitFaults
        /\ sq_faults' = sq_faults + 1
        /\ sq_failed' = sq_failed \cup {sq_units[sq_idx]}
        /\ sq_idx' = sq_idx + 1
        /\ UNCHANGED <<sq_pc, sq_tables, sq_k, sq_merged>>
     \/ /\ \E n \in 0..MaxUnitTables : sq_tables' = n
        /\ sq_k' = 0
        /\ sq_merged' = 0
        /\ sq_pc' = "tables"
        /\ UNCHANGED <<sq_idx, sq_failed, sq_faults>>
  /\ UNCHANGED <<sq_prog, sq_units, sq_processed, sq_ckpt>>

\* a unit recorded while tables of its page are still to come
UnitDoneEarly ==
  /\ sq_pc = "tables"
  /\ sq_k <= sq_tables
  /\ sq_processed' = sq_processed \cup {sq_units[sq_idx]}
  /\ sq_ckpt' = save_checkpoint_multi(sq_processed')
  /\ sq_idx' = sq_idx + 1
  /\ sq_pc' = "next"
  /\ UNCHANGED <<sq_prog, sq_units, sq_tables, sq_k, sq_merged, sq_failed, sq_faults>>

\* one iteration of the loop over the tables: the table is extracted and
\* saved, or its exception is caught and logged
UnitTable ==
  /\ sq_pc = "tables"
  /\ sq_k < sq_tables
  /\ sq_k' = sq_k + 1
  /\ \E raises \in BOOLEAN : sq_merged' = IF raises THEN sq_merged ELSE sq_merged + 1
  /\ UNCHANGED <<sq_prog, sq_units, sq_pc, sq_idx, sq_tables, sq_processed, sq_failed, sq_ckpt,
                 sq_faults>>

\* process_year returns: processed_years.add(year) and the checkpoint
UnitDone ==
  /\ sq_pc = "tables"
  /\ sq_k = sq_tables
  /\ LET added == sq_processed \cup {sq_units[sq_idx]} IN
       /\ sq_processed' = added
       /\ sq_ckpt' = IF sq_prog = "scraper_al"
                     THEN IF Cardinality(added) % CheckpointEvery = 0
                          THEN save_checkpoint(added) ELSE sq_ckpt
                     ELSE save_checkpoint_multi(added)
  /\ sq_idx' = sq_idx + 1
  /\ sq_pc' = "next"
  /\ UNCHANGED <<sq_prog, sq_units, sq_tables, sq_k, sq_merged, sq_failed, sq_faults>>

\* the loop is over: the final checkpoint of scraper_al.py
UnitsEnd ==
  /\ sq_pc = "next"
  /\ sq_idx > Len(sq_units)
  /\ sq_ckpt' = IF sq_prog = "scraper_al" THEN save_checkpoint(sq_processed) ELSE sq_ckpt
  /\ sq_pc' = "done"
  /\ UNCHANGED <<sq_prog, sq_units, sq_idx, sq_tables, sq_k, sq_merged, sq_processed, sq_failed,
                 sq_faults>>

(***************************************************************************)
(* Specifications.                                                         *)
(***************************************************************************)
NextStandings ==
  \/ StandingsRow /\ UNCHANGED <<cl_vars, ld_vars, ts_vars, run_vars, dp_vars, sk_vars, lg_vars, tb_vars, sq_vars>>
  \/ StandingsReturn /\ UNCHANGED <<cl_vars, ld_vars, ts_vars, run_vars, dp_vars, sk_vars, lg_vars, tb_vars, sq_vars>>

InitStandings == st_Init /\ cl_Idle /\ ld_Idle /\ ts_Idle /\ run_Idle /\ dp_Idle /\ sk_Idle /\ lg_Idle /\ tb_Idle /\ sq_Idle

SpecStandings == InitStandings /\ [][NextStandings]_vars

NextClean ==
  \/ ScrapeStandings /\ UNCHANGED <<st_vars, ld_vars, ts_vars, run_vars, dp_vars, sk_vars, lg_vars, tb_vars, sq_vars>>
  \/ CleanFile /\ UNCHANGED <<st_vars, ld_vars, ts_vars, run_vars, dp_vars, sk_vars, lg_vars, tb_vars, sq_vars>>
  \/ CleanAgain /\ UNCHANGED <<st_vars, ld_vars, ts_vars, run_vars, dp_vars, sk_vars, lg_vars, tb_vars, sq_vars>>

InitClean == cl_Init /\ st_Idle /\ ld_Idle /\ ts_Idle /\ run_Idle /\ dp_Idle /\ sk_Idle /\ lg_Idle /\ tb_Idle /\ sq_Idle

SpecClean == InitClean /\ [][NextClean]_vars

NextLeaders ==
  \/ ScrapeLeaders /\ UNCHANGED <<st_vars, cl_vars, ts_vars, run_vars, dp_vars, sk_vars, lg_vars, tb_vars, sq_vars>>
  \/ ScrapeLeadersAgain /\ UNCHANGED <<st_vars, cl_vars, ts_vars, run_vars, dp_vars, sk_vars, lg_vars, tb_vars, sq_vars>>

InitLeaders == ld_Init /\ st_Idle /\ cl_Idle /\ ts_Idle /\ run_Idle /\ dp_Idle /\ sk_Idle /\ lg_Idle /\ tb_Idle /\ sq_Idle

SpecLeaders == InitLeaders /\ [][NextLeaders]_vars

NextTeamStats == ScrapeTeamStats /\ UNCHANGED <<st_vars, cl_vars, ld_vars, run_vars, dp_vars, sk_vars, lg_vars, tb_vars, sq_vars>>

InitTeamStats == ts_Init /\ st_Idle /\ cl_Idle /\ ld_Idle /\ run_Idle /\ dp_Idle /\ sk_Idle /\ lg_Idle /\ tb_Idle /\ sq_Idle

SpecTeamStats == InitTeamStats /\ [][NextTeamStats]_vars

NextRun ==
  \/ RunStart /\ UNCHANGED <<st_vars, cl_vars, ld_vars, ts_vars, dp_vars, sk_vars, lg_vars, tb_vars, sq_vars>>
  \/ RunUnit /\ UNCHANGED <<st_vars, cl_vars, ld_vars, ts_vars, dp_vars, sk_vars, lg_vars, tb_vars, sq_vars>>
  \/ RunFinish /\ UNCHANGED <<st_vars, cl_vars, ld_vars, ts_vars, dp_vars, sk_vars, lg_vars, tb_vars, sq_vars>>
  \/ RunKill /\ UNCHANGED <<st_vars, cl_vars, ld_vars, ts_vars, dp_vars, sk_vars, lg_vars, tb_vars, sq_vars>>
  \/ RunAgain /\ UNCHANGED <<st_vars, cl_vars, ld_vars, ts_vars, dp_vars, sk_vars, lg_vars, tb_vars, sq_vars>>

InitRun == run_Init /\ st_Idle /\ cl_Idle /\ ld_Idle /\ ts_Idle /\ dp_Idle /\ sk_Idle /\ lg_Idle /\ tb_Idle /\ sq_Idle

SpecRun == InitRun /\ [][NextRun]_vars

NextDispatch ==
  \/ DispatchTable /\ UNCHANGED <<st_vars, cl_vars, ld_vars, ts_vars, run_vars, sk_vars, lg_vars, tb_vars, sq_vars>>
  \/ DispatchReturn /\ UNCHANGED <<st_vars, cl_vars, ld_vars, ts_vars, run_vars, sk_vars, lg_vars, tb_vars, sq_vars>>

InitDispatch == dp_Init /\ st_Idle /\ cl_Idle /\ ld_Idle /\ ts_Idle /\ run_Idle /\ sk_Idle /\ lg_Idle /\ tb_Idle /\ sq_Idle

SpecDispatch == InitDispatch /\ [][NextDispatch]_vars

NextSink ==
  \/ SinkSave /\ UNCHANGED <<st_vars, cl_vars, ld_vars, ts_vars, run_vars, dp_vars, lg_vars, tb_vars, sq_vars>>
  \/ SinkReturn /\ UNCHANGED <<st_vars, cl_vars, ld_vars, ts_vars, run_vars, dp_vars, lg_vars, tb_vars, sq_vars>>

InitSink == sk_Init /\ st_Idle /\ cl_Idle /\ ld_Idle /\ ts_Idle /\ run_Idle /\ dp_Idle /\ lg_Idle /\ tb_Idle /\ sq_Idle

SpecSink == InitSink /\ [][NextSink]_vars

NextLeaderLoop ==
  \/ LeadersRow /\ UNCHANGED <<st_vars, cl_vars, ld_vars, ts_vars, run_vars, dp_vars, sk_vars, tb_vars, sq_vars>>
  \/ LeadersReturn /\ UNCHANGED <<st_vars, cl_vars, ld_vars, ts_vars, run_vars, dp_vars, sk_vars, tb_vars, sq_vars>>

InitLeaderLoop ==
  lg_Init /\ st_Idle /\ cl_Idle /\ ld_Idle /\ ts_Idle /\ run_Idle /\ dp_Idle /\ sk_Idle /\ tb_Idle /\ sq_Idle

SpecLeaderLoop == InitLeaderLoop /\ [][NextLeaderLoop]_vars

NextStandingsTable ==
  ExtractStandings /\ UNCHANGED <<st_vars, cl_vars, ld_vars, ts_vars, run_vars, dp_vars, sk_vars, lg_vars, sq_vars>>

InitStandingsTable ==
  tb_Init /\ st_Idle /\ cl_Idle /\ ld_Idle /\ ts_Idle /\ run_Idle /\ dp_Idle /\ sk_Idle /\ lg_Idle /\ sq_Idle

SpecStandingsTable == InitStandingsTable /\ [][NextStandingsTable]_vars

NextUnits ==
  \/ UnitSkip /\ UNCHANGED <<st_vars, cl_vars, ld_vars, ts_vars, run_vars, dp_vars, sk_vars, lg_vars, tb_vars>>
  \/ UnitFetch /\ UNCHANGED <<st_vars, cl_vars, ld_vars, ts_vars, run_vars, dp_vars, sk_vars, lg_vars, tb_vars>>
  \/ UnitTable /\ UNCHANGED <<st_vars, cl_vars, ld_vars, ts_vars, run_vars, dp_vars, sk_vars, lg_vars, tb_vars>>
  \/ UnitDone /\ UNCHANGED <<st_vars, cl_vars, ld_vars, ts_vars, run_vars, dp_vars, sk_vars, lg_vars, tb_vars>>
  \/ UnitsEnd /\ UNCHANGED <<st_vars, cl_vars, ld_vars, ts_vars, run_vars, dp_vars, sk_vars, lg_vars, tb_vars>>

InitUnits ==
  sq_Init /\ st_Idle /\ cl_Idle /\ ld_Idle /\ ts_Idle /\ run_Idle /\ dp_Idle /\ sk_Idle /\ lg_Idle /\ tb_Idle

SpecUnits == InitUnits /\ [][NextUnits]_vars

(***************************************************************************)
(* Properties of the standings extraction (SpecStandings).                 *)
(***************************************************************************)
\* the text of the second cell of a row, trimmed
SecondCell(cells) == IF Len(cells) > 1 THEN Strip(cells[2].text) ELSE <<>>

\* C4: a standings row whose second cell is a split-season marker other
\* than "Final" ("1st Half", "2nd Half", "(a)", "(b)") appends no record:
\* the step that reads such a row leaves data as it was.
C4_PartialSeasonRowEmitsNothing ==
  [][SecondCell(st_cells') \in {tFirstHalf, tSecondHalf, tSplitA, tSplitB}
       => st_data' = st_data]_vars

\* a partial-season row of a team has been read after the team's record
\* was appended
C4_Witness ==
  /\ SecondCell(st_cells) \in {tFirstHalf, tSecondHalf, tSplitA, tSplitB}
  /\ st_cells[1].link.has
  /\ Len(st_data) = 1

\* the row without its second cell
RemoveSplit(cells) == <<cells[1]>> \o SubSeq(cells, 3, Len(cells))

\* the row of the example: [Y(link), Final, 95, 67, 0.586, --]
C5_ExampleRow ==
  <<TeamCell(<<"Y">>), TextCell(tFinal)>> \o TextCells(<<<<"9", "5">>, <<"6", "7">>, <<"0", ".", "5", "8", "6">>, <<"-", "-">>>>)

\* C5: a row whose second cell is "Final" appends exactly what the same row
\* without the split cell appends, whatever the number of cells; the row
\* [Y(link), Final, 95, 67, 0.586, --] gives wins 95, losses 67, no ties,
\* WP 0.586 and GB 0.
C5_FinalRowAsWithoutSplit ==
  [][(st_pc = "loop" /\ st_cells' # <<>> /\ SecondCell(st_cells') = tFinal
        /\ st_data' # st_data)
       => /\ st_data' = st_data
               \o standings_row(RemoveSplit(st_cells'), st_division, <<"1", "9", "8", "1">>, tAL).emit
          /\ split_offset(RemoveSplit(st_cells')) = 0
          /\ st_cells' = C5_ExampleRow =>
               LET rec == st_data'[Len(st_data')].v IN
               /\ rec[colWins] = Str(<<"9", "5">>) /\ rec[colLosses] = Str(<<"6", "7">>)
               /\ rec[colTies] = NaN /\ rec[colWP] = Str(<<"0", ".", "5", "8", "6">>)
               /\ rec[colGB] = Str(<<"0">>) /\ rec[colPayroll] = NaN]_vars

\* a "Final" row of nine cells has been read and its record, with ties and
\* payroll, appended
C5_Witness ==
  /\ SecondCell(st_cells) = tFinal
  /\ Len(st_cells) = 9
  /\ st_data # <<>>
  /\ LET rec == st_data[Len(st_data)].v IN
       rec[colTies] = Str(<<"1">>) /\ rec[colPayroll] = Str(<<"9">>) /\ rec[colGB] = Str(<<"0">>)

(***************************************************************************)
(* Properties of the page-to-cleaned-file run (SpecClean).                 *)
(***************************************************************************)
\* the cell the extractor reads as games behind
GBCell(cells) == raw_fields(cells, split_offset(cells)).gb

\* the rows of the scraped file that the duplicate removal of clean_csv
\* keeps, by their position in the file
Kept ==
  LET df == read_csv(cl_file)
      keys == key_columns(df.cols)
  IN SelectSeq([i \in 1..Len(df.rows) |-> i],
               LAMBDA i : \A j \in 1..(i - 1) : ~SameKey(df.rows[j], df.rows[i], keys))

\* the games-behind value of the cleaned file in the row kept from row i
CleanedGB(i) ==
  LET k == CHOOSE n \in 1..Len(Kept) : Kept[n] = i IN
  read_csv(cl_out).rows[k][colGB]

IsKept(i) == \E n \in 1..Len(Kept) : Kept[n] = i

\* C3: clean_csv over the file it wrote gives the same rows and values as
\* the first pass.
C3_CleanIdempotent == cl_pc = "done" => cl_out2 = cl_out

\* the text is digits followed by one of the listed encodings of the
\* one-half glyph
HalfGame(t) ==
  \E k \in 1..Len(t) :
    /\ IsDigits(SubSeq(t, 1, k))
    /\ \E n \in 1..Len(half_patterns) : SubSeq(t, k + 1, Len(t)) = half_patterns[n]

\* the digits before the encoding
HalfDigits(t) ==
  SubSeq(t, 1, CHOOSE k \in 1..Len(t) :
                 /\ IsDigits(SubSeq(t, 1, k))
                 /\ \E n \in 1..Len(half_patterns) :
                      SubSeq(t, k + 1, Len(t)) = half_patterns[n])

\* C6: a games-behind cell that is digits followed by a listed encoding of
\* the one-half glyph is stored as the digits followed by ".5", in the
\* extracted record and, as that number, in the cleaned file.
C6_HalfGameRepaired ==
  \A i \in 1..Len(cl_rows) :
    (Len(cl_data) = Len(cl_rows) /\ HalfGame(GBCell(cl_rows[i]).s)) =>
      LET repaired == HalfDigits(GBCell(cl_rows[i]).s) \o <<".", "5">> IN
      /\ cl_data[i].v[colGB] = Str(repaired)
      /\ (cl_out.exists /\ IsKept(i)) => CleanedGB(i) = ParseNum(repaired)

\* C7: a row whose games-behind cell is exactly "--" gives a record with
\* games behind "0", and the cleaned file holds the number 0 for it, not a
\* missing value.
C7_DashesBecomeZero ==
  \A i \in 1..Len(cl_rows) :
    (Len(cl_data) = Len(cl_rows) /\ GBCell(cl_rows[i]) = Str(tDashes)) =>
      /\ cl_data[i].v[colGB] = Str(<<"0">>)
      /\ (cl_out.exists /\ IsKept(i)) =>
           (IsNum(CleanedGB(i)) /\ CleanedGB(i).m = 0)

\* a table whose second row has the games-behind cell "--" has been
\* scraped and cleaned, both rows kept
C7_Witness ==
  /\ cl_pc = "done"
  /\ Len(cl_rows) = 2
  /\ GBCell(cl_rows[2]) = Str(tDashes)
  /\ Len(cl_out.rows) = 2

(***************************************************************************)
(* Properties of the leaders page (SpecLeaders).                           *)
(***************************************************************************)
\* C2: merging into the file the batch of records it was written from
\* leaves the number of rows of the file as it was.
C2_MergeSameBatchKeepsRowCount ==
  [][(ld_pc = "saved" /\ ld_pc' = "merged")
       => Len(ld_file'.rows) = Len(ld_file.rows)]_vars

\* a row of at least five cells whose first cell is tagged as a statistic
\* column and whose player cell has rowspan 2
IsGroupStart(row) ==
  /\ Len(row.cells) >= 5
  /\ Contains(row.cells[1].cls, tDatacolBlue)
  /\ row.cells[2].rowspan = <<"2">>

\* the records of rows n-1 and n are exactly two, after those of the rows
\* before, and share statistic, value and player
TwoRecordsOfGroup(n) ==
  LET before == extract_player_leaders(SubSeq(ld_rows, 1, n - 2), <<"1", "9", "8", "1">>, tAL)
      upto == extract_player_leaders(SubSeq(ld_rows, 1, n), <<"1", "9", "8", "1">>, tAL)
  IN /\ Len(upto) = Len(before) + 2
     /\ SubSeq(upto, 1, Len(before)) = before
     /\ LET r1 == upto[Len(before) + 1].v
            r2 == upto[Len(before) + 2].v
        IN /\ r1[colStatistic] = r2[colStatistic]
           /\ r1[colValue] = r2[colValue]
           /\ r1[colPlayerName] = r2[colPlayerName]
           /\ r1[colYear] = r2[colYear] /\ r1[colLeague] = r2[colLeague]

\* C8 as stated: a group-start row with player rowspan 2 followed by a row
\* of one cell gives exactly two records that share statistic, value and
\* player.
C8_Original ==
  \A n \in 2..Len(ld_rows) :
    (IsGroupStart(ld_rows[n - 1]) /\ Len(ld_rows[n].cells) = 1)
      => TwoRecordsOfGroup(n)

\* neither the row nor its first cell is tagged grey, banner or header
Untagged(row) ==
  /\ ~Contains(row.cls, tGrey)
  /\ \A tag \in {tGrey, tBanner, tHeader} : ~Contains(row.cells[1].cls, tag)

\* C8, amended: the same, for a group-start row whose statistic text and
\* player name (asterisks removed) are not empty, neither row being tagged
\* grey, banner or header.
C8_GroupStartAndContinuation ==
  \A n \in 2..Len(ld_rows) :
    (/\ IsGroupStart(ld_rows[n - 1]) /\ Len(ld_rows[n].cells) = 1
     /\ Untagged(ld_rows[n - 1]) /\ Untagged(ld_rows[n])
     /\ At(ld_rows[n - 1].cells, 0) # <<>>
     /\ strip_asterisks(At(ld_rows[n - 1].cells, 1)) # <<>>)
      => TwoRecordsOfGroup(n)

\* a group-start row and its continuation row have been read and two
\* records, of teams T and V, extracted
C8_Witness ==
  /\ Len(ld_rows) = 2
  /\ IsGroupStart(ld_rows[1]) /\ Len(ld_rows[2].cells) = 1
  /\ Len(ld_data) = 2
  /\ ld_data[1].v[colTeam] = Str(<<"T">>) /\ ld_data[2].v[colTeam] = Str(<<"V">>)
  /\ ld_data[2].v[colPlayerName] = Str(<<"P">>)

(***************************************************************************)
(* Properties of the team statistics page (SpecTeamStats).                 *)
(***************************************************************************)
\* the labels of the header row (the first row of the table) that are not
\* empty, in order, after the translation of the synonyms
C9_Labels ==
  LET texts == [i \in 1..Len(ts_table[1]) |-> Strip(ts_table[1][i].text)]
      present == SelectSeq(texts, LAMBDA t : t # <<>>)
  IN [i \in 1..Len(present) |-> COLUMN_MAPPING(present[i])]

\* the place of a label among the labels (the last, when it is there twice)
C9_Position(labels, c) ==
  CHOOSE p \in 1..Len(labels) :
    labels[p] = c /\ \A q \in 1..Len(labels) : labels[q] = c => q <= p

RECURSIVE RunAll(_, _)
RunAll(files, units) ==
  IF units = <<>> THEN files
  ELSE RunAll(process_year(run_prog, files, OkPage, Head(units).year,
                           Head(units).league).files,
              Tail(units))

Uninterrupted == RunAll(NoFiles, RunUnits(run_prog))

\* C1: a run that follows an interrupted run skips every unit of the
\* checkpoint the interrupted run left and processes the others only, and
\* when it is over (no page having raised) the files are those of a single
\* uninterrupted run.
C1_ResumeFromCheckpoint ==
  (run_no > 1 /\ run_persisted.exists) =>
    /\ run_last.outcome \in {"processed", "failed"} =>
         run_last.unit \notin run_persisted.processed
    /\ (run_pc = "done" /\ run_faults = 0) => run_files = Uninterrupted

Unsaved == run_processed \ run_ckpt.processed

\* the re-work after a stop is bounded: fewer than ten units in scraper_al.py,
\* none in scraper_minor.py
ReworkBounded ==
  IF run_prog = "scraper_al" THEN Cardinality(Unsaved) < CheckpointEvery
  ELSE Unsaved = {}

\* the checkpoint file is written when the loop is over
SavedAtEnd == run_pc = "done" => (run_ckpt.exists /\ run_ckpt.processed = run_processed)

\* C11: at every point of a run the units processed in memory and missing
\* from the checkpoint file are those since the last save (fewer than ten in
\* scraper_al.py, none in scraper_minor.py), and when the loop over the units
\* is over the checkpoint file has been written with the processed units,
\* whether or not units failed.
C11_BoundedRework == ReworkBounded /\ SavedAtEnd

(***************************************************************************)
(* Properties of the dispatch of the tables (SpecDispatch).                *)
(***************************************************************************)
\* the step goes through a table whose title could be read
TableStep == dp_n' = dp_n + 1 /\ ~dp_table'.raises

LeaderTitle(table) ==
  Contains(table.title, tPlayerReview) \/ Contains(table.title, tPitcherReview)

SubtitlePitching(table) ==
  Contains(table.subtitle, tPitching) \/ Contains(table.subtitle, tPitcher)

\* the files after data was saved to the file of the kind
SavedTo(files, league, kind, data) ==
  [files EXCEPT ![<<league, kind>>] = save_to_csv(data, @, FALSE)]

\* the leader records of the table of the step
StepLeaders ==
  extract_player_leaders(dp_table'.rows, <<"1", "9", "8", "1">>, PageLeague(dp_prog))

\* C12: a table whose title holds "Player Review" or "Pitcher Review" is
\* extracted as a leader table; its records are saved to the pitcher leaders
\* when the subtitle holds "Pitching" or "Pitcher", and otherwise where the
\* title says (pitcher leaders for "Pitcher Review", hitting leaders else),
\* in scraper_al.py as in scraper_minor.py.
C12_LeaderTableBySubtitle ==
  [][ (TableStep /\ LeaderTitle(dp_table')) =>
        dp_files' =
          SavedTo(dp_files, PageLeague(dp_prog),
                  IF SubtitlePitching(dp_table') \/ Contains(dp_table'.title, tPitcherReview)
                  THEN "Pitcher_Leaders" ELSE "Player_Hitting_Leaders",
                  StepLeaders) ]_vars

\* the files the step changed
ChangedFiles == {n \in FileNames : dp_files'[n] # dp_files[n]}

StandingsRule(table) ==
  Contains(table.title, tTeamStandings) \/ Contains(table.subtitle, tTeamStandings)

LeaderKinds == {"Pitcher_Leaders", "Player_Hitting_Leaders"}

TeamReviewKinds ==
  {"Team_Hitting_Leaders", "Team_Pitching_Leaders", "Team_Hitting_Complete",
   "Team_Pitching_Complete"}

\* C13: every table changes at most one file, the one of the first rule it
\* matches: a leader title gives leader records in a leaders file; else
\* "Team Standings" in the title or the subtitle gives standings records in
\* the standings file; else "Team Review" in the title gives a team review
\* file; a table that matches no rule changes no file.
C13_DispatchOrdered ==
  [][ TableStep =>
        /\ Cardinality(ChangedFiles) <= 1
        /\ IF LeaderTitle(dp_table')
           THEN \E kind \in LeaderKinds :
                  dp_files' = SavedTo(dp_files, PageLeague(dp_prog), kind, StepLeaders)
           ELSE IF StandingsRule(dp_table')
           THEN dp_files' =
                  SavedTo(dp_files, PageLeague(dp_prog), "Team_Standings",
                          extract_team_standings(CellsOf(dp_table'.rows),
                                                 <<"1", "9", "8", "1">>, PageLeague(dp_prog)))
           ELSE IF Contains(dp_table'.title, tTeamReview)
           THEN \A n \in ChangedFiles : n[2] \in TeamReviewKinds
           ELSE dp_files' = dp_files ]_vars

\* the columns clean_csv converts to a numeric type
IsNumericColumn(c) == InSeq(c, numeric_columns) \/ InSeq(c, decimal_numeric_columns)

\* C14: in a column that clean_csv converts to a numeric type, the cleaned
\* file holds for every kept row a number or the text the scraped file
\* held: a value that is not a number is never replaced by a missing value
\* or a default.
C14_CoercionKeepsText ==
  cl_out.exists =>
    LET before == read_csv(cl_file)
        after == read_csv(cl_out)
    IN \A n \in 1..Len(Kept) : \A c \in Range(before.cols) :
         (IsNumericColumn(c) /\ ~IsNa(before.rows[Kept[n]][c])) =>
           \/ IsNum(after.rows[n][c])
           \/ after.rows[n][c] = before.rows[Kept[n]][c]

(***************************************************************************)
(* Properties of the calls of save_to_csv (SpecSink).                      *)
(***************************************************************************)
\* the last call found the file, had records to save, and either the
\* records have none of the key columns or the check for duplicates raised
Degraded ==
  /\ sk_n > 0
  /\ sk_before.exists
  /\ sk_data # <<>>
  /\ \/ key_columns(DataFrame(sk_data).cols) = <<>>
     \/ sk_ioerr
     \/ ReadRaises(sk_before)

\* the fields of record i of the batch, in the order of its keys
RecordFields(i) ==
  [j \in 1..Len(sk_data[i].keys) |-> sk_data[i].v[sk_data[i].keys[j]].s]

\* C15: when the file exists and the records have no key column, or the
\* check for duplicates raises, the call leaves the rows the file had as
\* they were, appends one row for every record of the batch, and logs a
\* warning.
C15_DegradedAppendsAll ==
  Degraded =>
    /\ Len(sk_file.rows) = Len(sk_before.rows) + Len(sk_data)
    /\ SubSeq(sk_file.rows, 1, Len(sk_before.rows)) = sk_before.rows
    /\ \A i \in 1..Len(sk_data) :
         sk_file.rows[Len(sk_before.rows) + i] = RecordFields(i)
    /\ \E k \in 1..Len(sk_log) : sk_log[k] = "WARNING"

\* the second call had two records with key columns, reading the file
\* raised, and the two records were appended
C15_Witness ==
  /\ sk_n = 2
  /\ sk_before.exists
  /\ sk_ioerr
  /\ key_columns(DataFrame(sk_data).cols) # <<>>
  /\ Len(sk_data) = 2
  /\ Len(sk_file.rows) = Len(sk_before.rows) + 2

\* the key columns of the records of the last call
BatchKeys == key_columns(DataFrame(sk_data).cols)

\* record i of the batch has the key of row r of the file before the call
KeyInFile(i, r) ==
  \A k \in 1..Len(BatchKeys) :
    FieldAt(sk_before.rows[r], ColIndex(sk_before.cols, BatchKeys[k]))
      = sk_data[i].v[BatchKeys[k]].s

\* record i of the batch has the key of record j of the batch
KeyInBatch(i, j) ==
  \A k \in 1..Len(BatchKeys) : sk_data[i].v[BatchKeys[k]] = sk_data[j].v[BatchKeys[k]]

\* the records of the batch whose key neither the file nor an earlier
\* record of the batch has, by their position
FirstOccurrences ==
  SelectSeq([i \in 1..Len(sk_data) |-> i],
            LAMBDA i : /\ \A r \in 1..Len(sk_before.rows) : ~KeyInFile(i, r)
                       /\ \A j \in 1..(i - 1) : ~KeyInBatch(i, j))

\* C16: a call that finds no file creates it with exactly the records of
\* the batch; a call that finds a file with the columns of the records
\* keeps its rows as they were, in their order, and adds after them the
\* records of the batch whose key tuple no row of the file and no earlier
\* record of the batch has, and no other.
C16_FirstOccurrenceWins ==
  (sk_n > 0 /\ sk_data # <<>>) =>
    /\ ~sk_before.exists =>
         sk_file.rows = [i \in 1..Len(sk_data) |-> RecordFields(i)]
    /\ (sk_before.exists /\ ~Degraded /\ sk_before.cols = DataFrame(sk_data).cols) =>
         sk_file.rows = sk_before.rows
                          \o [n \in 1..Len(FirstOccurrences) |-> RecordFields(FirstOccurrences[n])]

(***************************************************************************)
(* Properties of the division of the standings (SpecStandings).            *)
(***************************************************************************)
DivisionNames == {tEast, tCentral, tWest}

\* the first cell has a rowspan attribute and the name of a division
HasRowspanHeader(cells) ==
  /\ cells # <<>>
  /\ cells[1].rowspan # <<>>
  /\ Strip(cells[1].text) \in DivisionNames

\* the first cell spans more than one row and has the name of a division
SpansRowsHeader(cells) ==
  /\ cells # <<>>
  /\ IsIntText(cells[1].rowspan)
  /\ ParseNum(cells[1].rowspan).m > 1
  /\ Strip(cells[1].text) \in DivisionNames

\* the records the step appended carry the division
AppendedCarry(division) ==
  /\ Len(st_data') >= Len(st_data)
  /\ SubSeq(st_data', 1, Len(st_data)) = st_data
  /\ \A i \in (Len(st_data) + 1)..Len(st_data') : st_data'[i].v[colDivision] = Str(division)

\* the step is an iteration of the loop over the rows
RowStep == st_pc = "loop" /\ st_pc' = "loop"

\* C17 as stated: the division is "Standard" at first; a row whose first
\* cell spans more than one row and names a division sets the division and
\* appends nothing; every other row leaves the division and appends only
\* records that carry it.
C17_Original ==
  /\ st_pc = "loop" => st_division = tStandard
  /\ [][ RowStep =>
           IF SpansRowsHeader(st_cells')
           THEN st_division' = Strip(st_cells'[1].text) /\ st_data' = st_data
           ELSE st_division' = st_division /\ AppendedCarry(st_division) ]_vars

\* C17: the division is "Standard" at first; a row whose first cell has a
\* rowspan attribute, of any value, and names a division sets the division
\* and appends nothing; every other row leaves the division and appends
\* only records that carry it.
C17_DivisionStateMachine ==
  /\ st_pc = "loop" => st_division = tStandard
  /\ [][ RowStep =>
           IF HasRowspanHeader(st_cells')
           THEN st_division' = Strip(st_cells'[1].text) /\ st_data' = st_data
           ELSE st_division' = st_division /\ AppendedCarry(st_division) ]_vars

\* a team row after a division header with rowspan 1 gave a record of the
\* division
C17_Witness ==
  /\ st_division = tCentral
  /\ st_data # <<>>
  /\ st_data[Len(st_data)].v[colDivision] = Str(tCentral)
  /\ st_cells # <<>>
  /\ st_cells[1].link.has

\* the text parses as a number in [0, 1] and has a decimal point
LooksLikeWP(t) ==
  /\ IsNumText(t)
  /\ NumLe(IntV(0), ParseNum(t)) /\ NumLe(ParseNum(t), IntV(1))
  /\ Contains(t, <<".">>)

\* the step appended one record for a row with room for a ties column
WideRowStep ==
  /\ RowStep
  /\ Len(st_data') = Len(st_data) + 1
  /\ SubSeq(st_data', 1, Len(st_data)) = st_data
  /\ Len(st_cells') >= 7 + split_offset(st_cells')

\* the games-behind text as the record stores it
StoredGB(t) == OrNone(clean_gb(Str(t)))

LeaderStep == lg_pc = "loop" /\ lg_n' = lg_n + 1

\* the step appended nothing, or exactly one record
AppendedNone == lg_data' = lg_data

AppendedOne ==
  /\ Len(lg_data') = Len(lg_data) + 1
  /\ SubSeq(lg_data', 1, Len(lg_data)) = lg_data

\* the record the step appended carries the statistic and the value of the
\* last group-start row
CarriesGroup ==
  LET rec == lg_data'[Len(lg_data')].v IN
  /\ rec[colStatistic] = Str(At(lg_start.cells, 0))
  /\ rec[colValue] = Str(At(lg_start.cells, 3))

\* C19 as stated: a record appended for a row of two cells or of one cell
\* carries the statistic and the value of the last group-start row, and
\* every row of two cells after a group-start row appends one record.
C19_Original ==
  [][ (LeaderStep /\ Len(lg_row'.cells) \in {1, 2}) =>
        /\ AppendedOne => CarriesGroup
        /\ (Len(lg_row'.cells) = 2 /\ lg_start # NoRow) => AppendedOne ]_vars

\* C19: with group-start rows taken as the rows of at least five cells,
\* first cell tagged as the statistic column, that are not tagged grey,
\* banner or header, a record appended for a row of two cells or of one cell
\* carries the statistic and the value of the last group-start row, and a
\* row of two cells, not tagged grey, banner or header, after a group-start
\* row whose statistic and value are not empty appends one record.
C19_CoLeadersShareGroup ==
  [][ (LeaderStep /\ Len(lg_row'.cells) \in {1, 2}
         /\ lg_start # NoRow /\ Untagged(lg_start)) =>
        /\ AppendedOne => CarriesGroup
        /\ (/\ Len(lg_row'.cells) = 2 /\ Untagged(lg_row')
            /\ At(lg_start.cells, 0) # <<>> /\ At(lg_start.cells, 3) # <<>>) => AppendedOne ]_vars

\* a row of two cells after the group start "RBI", 99 gave a record of
\* player Q's co-leader with the statistic and the value of the group
C19_Witness ==
  /\ lg_n = 2
  /\ Len(lg_row.cells) = 2
  /\ Len(lg_data) = 2
  /\ lg_data[2].v[colStatistic] = Str(<<"R", "B", "I">>)
  /\ lg_data[2].v[colValue] = Str(<<"9", "9">>)
  /\ lg_data[2].v[colTeam] = Str(<<"U">>)

\* the player cell of the row spans more than one row
PlayerSpansRows(row) ==
  /\ IntOk(row.cells[2].rowspan)
  /\ ParseNum(Strip(row.cells[2].rowspan)).m > 1

\* C20: a row of at least five cells whose first cell is tagged as the
\* statistic column (and that is not tagged grey, banner or header) appends
\* one record and replaces the statistic, the value and the player, the
\* player being kept only when the rowspan of its cell is more than 1; a
\* row of one cell after such a row whose player cell does not span more
\* than one row appends nothing.
C20_GroupStartReplacesState ==
  [][ LeaderStep =>
        /\ (IsStartRow(lg_row') /\ Untagged(lg_row')) =>
             /\ AppendedOne
             /\ lg_cur' = [statistic |-> Str(At(lg_row'.cells, 0)),
                           value |-> Str(At(lg_row'.cells, 3)),
                           player |-> IF PlayerSpansRows(lg_row')
                                      THEN Str(strip_asterisks(At(lg_row'.cells, 1)))
                                      ELSE NaN]
        /\ (/\ Len(lg_row'.cells) = 1
            /\ lg_start # NoRow /\ Untagged(lg_start) /\ ~PlayerSpansRows(lg_start)) =>
             AppendedNone ]_vars

\* a group is open: the last group-start row was read (it is not tagged
\* grey, banner or header) and its statistic is not empty
OpenGroup ==
  /\ lg_start # NoRow
  /\ Untagged(lg_start)
  /\ At(lg_start.cells, 0) # <<>>

\* C21: a row of three cells (not tagged grey, banner or header) within an
\* open group appends one record with the statistic of the group, the
\* player, the team and the value of the row itself, and leaves the
\* statistic, the shared value and the retained player as they were.
C21_TripleKeepsGroup ==
  [][ (LeaderStep /\ Len(lg_row'.cells) = 3 /\ Untagged(lg_row') /\ OpenGroup) =>
        /\ AppendedOne
        /\ LET rec == lg_data'[Len(lg_data')].v IN
             /\ rec[colStatistic] = Str(At(lg_start.cells, 0))
             /\ rec[colPlayerName] = Str(Strip(Replace(At(lg_row'.cells, 0), <<"*">>, <<>>)))
             /\ rec[colTeam] = Str(At(lg_row'.cells, 1))
             /\ rec[colValue] = Str(At(lg_row'.cells, 2))
        /\ lg_cur' = lg_cur ]_vars

\* after the group start "RBI", 99 a row of three cells gave a record with
\* its own value 39, and the shared value is still 99
C21_Witness ==
  /\ lg_n = 2
  /\ Len(lg_row.cells) = 3
  /\ Len(lg_data) = 2
  /\ lg_data[2].v[colStatistic] = Str(<<"R", "B", "I">>)
  /\ lg_data[2].v[colValue] = Str(<<"3", "9">>)
  /\ lg_cur.value = Str(<<"9", "9">>)

\* the row or its first cell is tagged grey, or its first cell banner or
\* header
Tagged(row) ==
  /\ row.cells # <<>>
  /\ \/ Contains(row.cls, <<"g", "r", "e", "y">>)
     \/ \E tag \in {<<"g", "r", "e", "y">>, <<"b", "a", "n", "n", "e", "r">>,
                     <<"h", "e", "a", "d", "e", "r">>} :
          Contains(row.cells[1].cls, tag)

\* the row has one of the four shapes the loop reads: a group start (at
\* least five cells, the first tagged as the statistic column), two cells,
\* one cell, three cells
HasShape(row) == IsStartRow(row) \/ Len(row.cells) \in {1, 2, 3}

\* C22: a row tagged banner, header or grey, and a row of none of the four
\* shapes, appends no record and leaves the statistic, the value and the
\* retained player as they were, whatever the number of its cells; and no
\* record is appended before the first group-start row.
C22_OtherRowsChangeNothing ==
  /\ [](lg_start = NoRow => lg_data = <<>>)
  /\ [][ (LeaderStep /\ (Tagged(lg_row') \/ ~HasShape(lg_row'))) =>
           (AppendedNone /\ lg_cur' = lg_cur) ]_vars

\* after a group start that retained its player, a row of one cell tagged
\* grey was read and nothing was appended
C22_Witness ==
  /\ lg_n = 2
  /\ Len(lg_row.cells) = 1
  /\ Tagged(lg_row)
  /\ Truthy(lg_cur.player)
  /\ Len(lg_data) = 1

\* C23: no record of the leaders has an asterisk in its player name,
\* whichever row appended it.
C23_NoAsteriskInPlayer ==
  \A i \in 1..Len(lg_data) : ~Contains(lg_data[i].v[colPlayerName].s, <<"*">>)

\* a group start with the player "P*", a co-leader "Q*", and a triple "*P"
\* gave three records
C23_Witness ==
  /\ lg_n = 3
  /\ Len(lg_data) = 3
  /\ Contains(lg_start.cells[2].text, <<"*">>)
  /\ Len(lg_row.cells) = 3
  /\ Contains(lg_row.cells[1].text, <<"*">>)
  /\ lg_data[2].v[colPlayerName] = Str(<<"Q">>)

\* the same group start followed by a row of one cell, which took the
\* retained player
C23_Continuation ==
  /\ lg_n = 2
  /\ Len(lg_data) = 2
  /\ Contains(lg_start.cells[2].text, <<"*">>)
  /\ Len(lg_row.cells) = 1

(***************************************************************************)
(* Properties of the general case of the team statistics (SpecTeamStats).  *)
(***************************************************************************)
\* the label of header cell i of the banner row (the first row of the table)
HeaderLabel(i) == Strip(ts_table[1][i].text)

\* header cell i has a label under which a value is stored: it is not
\* empty, it is not the team's, and no later header cell repeats it
StoredLabel(i) ==
  /\ HeaderLabel(i) # <<>>
  /\ ~IsTeamLabel(HeaderLabel(i))
  /\ \A q \in (i + 1)..Len(ts_table[1]) : HeaderLabel(q) # HeaderLabel(i)

\* the table was extracted by the general case
GeneralCase ==
  /\ ts_pc = "saved"
  /\ ~(ts_type = tPitching /\ ts_year \in EraYears)
  /\ 1 \in BannerRows(ts_table)

\* C24: in the general case every record holds, for every i within both the
\* cells of its data row and the header cells, the text of cell i (commas
\* removed) under the label of header cell i; the team label, whose value is
\* the team name, an empty label and a label repeated later are left aside.
C24_CellUnderHeaderLabel ==
  GeneralCase =>
    \A k \in 1..Len(ts_data) :
      \E j \in 2..Len(ts_table) :
        \A i \in 1..Len(ts_table[1]) :
          (i <= Len(ts_table[j]) /\ StoredLabel(i)) =>
            /\ HeaderLabel(i) \in Range(ts_data[k].keys)
            /\ ts_data[k].v[HeaderLabel(i)] = stat_value(ts_table[j][i])

\* the first cell has no link, or the text of its link holds "All-Star" or
\* "World Series"
NoTeamLink(cells) ==
  /\ cells # <<>>
  /\ \/ ~cells[1].link.has
     \/ Contains(Strip(cells[1].link.text), <<"A", "l", "l", "-", "S", "t", "a", "r">>)
     \/ Contains(Strip(cells[1].link.text),
                 <<"W", "o", "r", "l", "d", " ", "S", "e", "r", "i", "e", "s">>)

\* the record the step appended, if any, has for team the text of the link
\* of the first cell, which is not empty
TeamFromLink ==
  \A i \in (Len(st_data) + 1)..Len(st_data') :
    /\ st_cells' # <<>>
    /\ st_cells'[1].link.has
    /\ Strip(st_cells'[1].link.text) # <<>>
    /\ st_data'[i].v[colTeam] = Str(Strip(st_cells'[1].link.text))

\* C25 as stated: a row whose first cell has no link, or a link whose text
\* holds "All-Star" or "World Series", appends no record and leaves the
\* division; the team of every record is the text of the link of the first
\* cell of its row.
C25_Original ==
  [][ RowStep =>
        /\ NoTeamLink(st_cells') => (st_data' = st_data /\ st_division' = st_division)
        /\ TeamFromLink ]_vars

\* C25: the same, for the rows that are not division headers (a division
\* header has no link in its first cell and sets the division).
C25_TeamFromLink ==
  [][ RowStep =>
        /\ (NoTeamLink(st_cells') /\ ~HasRowspanHeader(st_cells')) =>
             (st_data' = st_data /\ st_division' = st_division)
        /\ TeamFromLink ]_vars

\* after the record of a team in the division East, a row whose link reads
\* "1981 World Series" was gone through: no record, the division still East
C25_Witness ==
  /\ st_division = tEast
  /\ Len(st_data) = 1
  /\ st_cells # <<>>
  /\ st_cells[1].link.has
  /\ Contains(st_cells[1].link.text, tWorldSeries)

(***************************************************************************)
(* Rows that raise in the standings extraction.                            *)
(***************************************************************************)
ReadWell(frow) == ~frow.raises

\* C26: in extract_team_standings every row that raises is logged once and
\* emits nothing, and the call returns the records of the table without the
\* rows that raised: the division carried over such a row is kept and the
\* rows after it are still read.
C26_RowFailureIsolated ==
  tb_pc = "returned" =>
    /\ tb_errors = Len(tb_rows) - Len(SelectSeq(tb_rows, ReadWell))
    /\ tb_data = extract_team_standings(CellsOf(SelectSeq(tb_rows, ReadWell)),
                                        <<"1", "9", "8", "1">>, tAL)

\* a division header, a header of another division that raises, a team row:
\* the team is of the first division
C26_Witness ==
  /\ tb_pc = "returned" /\ Len(tb_rows) = 3 /\ tb_errors = 1
  /\ ~tb_rows[1].raises /\ tb_rows[2].raises /\ ~tb_rows[3].raises
  /\ Strip(tb_rows[1].cells[1].text) = tEast
  /\ Strip(tb_rows[2].cells[1].text) = tWest
  /\ Len(tb_data) = 1 /\ tb_data[1].v[colDivision] = Str(tEast)

(***************************************************************************)
(* The order of the steps of the loop of main.                             *)
(***************************************************************************)
Settled(j) == sq_units[j] \in sq_processed \cup sq_failed

UnitTableStep == sq_k' = sq_k + 1

FetchStep == sq_pc = "next" /\ (sq_pc' = "tables" \/ sq_failed' # sq_failed)

\* C27: a unit is added to the processed set (and from there written to the
\* checkpoint) only when every table of its page has been gone through,
\* extracted and saved or skipped after its exception, and with that step
\* the loop is back at its top, before the fetch of the next unit; a page
\* is fetched and a table is saved only when every unit before it in the
\* list is processed or failed.
C27_UnitsInSequence ==
  [][ /\ sq_processed' # sq_processed =>
           /\ sq_pc = "tables" /\ sq_k = sq_tables
           /\ sq_processed' = sq_processed \cup {sq_units[sq_idx]}
           /\ sq_pc' = "next" /\ sq_idx' = sq_idx + 1
      /\ sq_ckpt' # sq_ckpt =>
           /\ sq_pc \in {"tables", "next"} /\ sq_k = sq_tables
           /\ sq_ckpt'.processed = sq_processed'
      /\ (FetchStep \/ UnitTableStep) => \A j \in 1..(sq_idx - 1) : Settled(j)
      /\ UnitTableStep => (sq_pc = "tables" /\ sq_idx' = sq_idx /\ sq_units[sq_idx] \notin sq_processed)
    ]_vars

\* the second unit of three is recorded after both tables of its page
C27_Witness ==
  /\ sq_prog = "scraper_minor" /\ sq_pc = "next" /\ sq_idx = 3
  /\ sq_tables = 2 /\ sq_k = 2 /\ sq_merged = 1
  /\ sq_units[2] \in sq_processed /\ sq_units[1] \in sq_failed

(***************************************************************************)
(* The keys of the rows of the file (SpecSink).                            *)
(***************************************************************************)
SinkFileKeys == key_columns(sk_file.cols)

\* rows i and j of the file have the same text in every key column
SameKeyRows(i, j) ==
  \A k \in 1..Len(SinkFileKeys) :
    FieldAt(sk_file.rows[i], ColIndex(sk_file.cols, SinkFileKeys[k]))
      = FieldAt(sk_file.rows[j], ColIndex(sk_file.cols, SinkFileKeys[k]))

\* C28: after any calls of save_to_csv on a file that did not exist, with
\* records that have a key column, no two rows of the file have the same
\* tuple in the key columns.
C28_KeysUnique ==
  (sk_file.exists /\ SinkFileKeys # <<>>) =>
    \A i, j \in 1..Len(sk_file.rows) : SameKeyRows(i, j) => i = j

(***************************************************************************)
(* The player the loop retains (SpecLeaderLoop).                           *)
(***************************************************************************)
\* the player name of the last group-start row whose player cell spans rows
SpanPlayer == Str(strip_asterisks(At(lg_span.cells, 1)))

\* C29: the retained player changes only in the step of a group-start row;
\* a record appended for a row of one cell has the player of the most recent
\* group-start row whose player cell has a rowspan of more than 1, also
\* after rows of two or three cells that name other players; and when that
\* row is the last group-start row, with a statistic and a name, a row of
\* one cell (not tagged grey, banner or header) appends such a record.
C29_PlayerFromSpanningStart ==
  [][ LeaderStep =>
        /\ lg_cur'.player # lg_cur.player => IsStartRow(lg_row')
        /\ (Len(lg_row'.cells) = 1 /\ ~AppendedNone) =>
             /\ AppendedOne
             /\ lg_span # NoRow
             /\ lg_data'[Len(lg_data')].v[colPlayerName] = SpanPlayer
        /\ (/\ Len(lg_row'.cells) = 1 /\ ~Tagged(lg_row')
            /\ lg_span # NoRow /\ lg_start = lg_span
            /\ At(lg_span.cells, 0) # <<>> /\ SpanPlayer.s # <<>>) =>
             (AppendedOne /\ lg_data'[Len(lg_data')].v[colPlayerName] = SpanPlayer) ]_vars

\* the group of player R, a row of two cells naming Q, then a row of one
\* cell: its record has player R
C29_Witness ==
  /\ lg_n = 3 /\ Len(lg_data) = 3
  /\ Len(lg_row.cells) = 1
  /\ lg_data[1].v[colPlayerName] = Str(<<"R">>)
  /\ lg_data[2].v[colPlayerName] = Str(<<"Q">>)
  /\ lg_data[3].v[colPlayerName] = Str(<<"R">>)
  /\ lg_data[3].v[colTeam] = Str(<<"V">>)

(***************************************************************************)
(* The processed set, the failed list and the checkpoint file (SpecUnits). *)
(***************************************************************************)
\* the index page lists no unit twice
DistinctUnits == \A i, j \in 1..Len(sq_units) : sq_units[i] = sq_units[j] => i = j

LoopOver == sq_pc \in {"next", "done"} /\ sq_idx > Len(sq_units)

====
